---------------------------- MODULE Spec2Model ----------------------------
(***************************************************************************)
(* Model of the Wayback analysis pipeline: main.py drives URLProcessor     *)
(* (links), LLMPlanner (taxonomy, classification, selection) and           *)
(* ScenarioAnalyzer (tagging) over the periods (years) of the input, each  *)
(* stage keeping one JSON document per analysis target and using it to     *)
(* resume.  A run is one execution of main(); the documents survive        *)
(* between runs, the objects' fields do not.                               *)
(***************************************************************************)
EXTENDS Naturals, Sequences, FiniteSets, TLC

(***************************************************************************)
(* The input of the run and the small universe of URLs.                    *)
(***************************************************************************)
\* A URL as it is written.  wayback: it is an archive-wrapped URL,
\* "https://web.archive.org/web/<ts>/<embedded URL>".  The other fields
\* are those of the embedded URL (of the URL itself when it is not
\* wrapped): the number of slashes written after its scheme ("http:/x"
\* has 1), its host as tokens (such as "WWW.", "Shop.Example", ":443"),
\* its path and its query as characters.
WaybackUrl(ts, slashes, host, path, query) ==
    [wayback |-> TRUE, ts |-> ts, slashes |-> slashes, host |-> host,
     path |-> path, query |-> query]

PlainUrl(slashes, host, path, query) ==
    [wayback |-> FALSE, ts |-> "", slashes |-> slashes, host |-> host,
     path |-> path, query |-> query]

\* The anchor of 2015: the archived home page.
A1 == WaybackUrl("2015", 2, << "shop.example" >>, << "/" >>, << >>)
\* The anchor of 2016: an archived page under /media/ (not "meaningful").
A2 == WaybackUrl("2016", 2, << "shop.example" >>, << "/", "m", "/" >>, << >>)
\* An internal page that both anchors link to.
P == WaybackUrl("2015", 2, << "shop.example" >>, << "/", "p" >>, << >>)
\* A URL the selection service may invent: it is in no discovered list.
H == PlainUrl(2, << "shop.example" >>, << "/", "h" >>, << >>)

\* load_historical_urls_from_file: (year, url) pairs sorted by year.
HistoricalUrls ==
    << [year |-> "2015", url |-> A1], [year |-> "2016", url |-> A2] >>

Years == {HistoricalUrls[k].year : k \in DOMAIN HistoricalUrls}

\* The years in ascending order: the insertion order of the dictionaries.
YearOrder == << "2015", "2016" >>

\* recommended_urls = valid_content_urls[:10]
FallbackCount == 10

(***************************************************************************)
(* Dictionaries are functions on a subset of the years.                    *)
(***************************************************************************)
EmptyDict == << >>

Put(d, k, v) == [x \in (DOMAIN d) \cup {k} |-> IF x = k THEN v ELSE d[x]]

\* The keys of d in insertion order.
Keys(d) == SelectSeq(YearOrder, LAMBDA y : y \in DOMAIN d)

(***************************************************************************)
(* A persisted JSON document: absent, complete, or torn (opened with 'w',  *)
(* so truncated, and not completely dumped).                               *)
(***************************************************************************)
Absent(empty) == [st |-> "absent", val |-> empty]

Torn(empty) == [st |-> "partial", val |-> empty]

Whole(v) == [st |-> "ok", val |-> v]

\* os.path.exists(file)
Exists(doc) == doc.st # "absent"

\* json.load(f) raises on a torn document
Loadable(doc) == doc.st = "ok"

\* A taxonomy document holds "core_page_types": a nested dict, or a list
\* when the nested dict was empty.
NoTypes == [kind |-> "none", nested |-> << >>]

(***************************************************************************)
(* URLProcessor                                                            *)
(***************************************************************************)
\* _is_meaningful_url: no technical extension, no technical path.
IsMeaningfulUrl(url) == url # A2

\* _filter_valid_links: keeps the meaningful links, in order.
FilterValidLinks(links) == SelectSeq(links, IsMeaningfulUrl)

\* What discover_internal_links returns when the fetch of the anchor page
\* raises: the exception is caught and the anchor alone is returned.
DiscoveryFailed(homepage_url) == << homepage_url >>

Range(s) == {s[k] : k \in DOMAIN s}

\* "if year in year_links_map and len(year_links_map[year]) > 0: continue"
\* The test inverted: only a year without links is skipped.
SkipLinks_EmptyOnly(map, year) == year \in DOMAIN map /\ Len(map[year]) = 0

SkipLinks(map, year) == year \in DOMAIN map /\ Len(map[year]) > 0

(***************************************************************************)
(* LLMPlanner: the taxonomy                                                *)
(***************************************************************************)
RECURSIVE Concat(_)
Concat(ss) == IF ss = << >> THEN << >> ELSE Head(ss) \o Concat(Tail(ss))

\* What the taxonomy service answers with when it answers well: stage ->
\* list of {type_name, typical_url_patterns}; a pattern is its characters.
TaxGood ==
    << [stage |-> "Awareness Stage",
        types |-> << [type_name |-> "Home",
                      typical_url_patterns |-> << << "/" >> >>] >>],
       [stage |-> "Interest Stage",
        types |-> << [type_name |-> "Product",
                      typical_url_patterns |-> << << "/", "p" >> >>] >>] >>

\* _call_llm raises, _parse_llm_response raises, or the parsed JSON is an
\* array (parsed.items() raises): generate_core_page_types raises.
TaxFailures == {"raise", "unparsable", "array"}

\* The parsed JSON is an object: with the stage lists asked for, or with
\* no list in it at all.
TaxAnswers == {"good", "shapeless"}

Parsed(answer) == IF answer = "good" THEN TaxGood ELSE << >>

\* _process_core_page_types_response, nested format: the flat list that
\* goes with a nested taxonomy (also what _load_core_page_types builds).
FlatTypes(nested) ==
    Concat([g \in DOMAIN nested |->
              [t \in DOMAIN nested[g].types |->
                 [type_name |-> nested[g].types[t].type_name,
                  typical_url_patterns |->
                      nested[g].types[t].typical_url_patterns,
                  related_journey_stage |-> nested[g].stage]]])

\* _process_core_page_types_response, nested format: parsed is the JSON
\* object as its keys in order, each with its value: a list of type
\* objects (is_list) or something else.  A key whose value is no list is
\* passed over, and a key gets into the nested taxonomy with its first
\* type, so not when its list is empty; the key itself is taken as it is.
ProcessCorePageTypesResponse(parsed) ==
    LET kept == SelectSeq(parsed,
                          LAMBDA e : e.is_list /\ e.types # << >>)
    IN  [g \in DOMAIN kept |->
            [stage |-> kept[g].stage, types |-> kept[g].types]]

\* The Python value None, where a stage name is expected (no stage name
\* of the answers is this text).
PyNone == "None"

\* item.get("related_journey_stage", "Unknown Stage")
StageOf(item) ==
    IF "related_journey_stage" \in DOMAIN item
    THEN item.related_journey_stage ELSE "Unknown Stage"

\* _process_core_page_types_response, flat format: each type is put under
\* its stage, without its related_journey_stage; the stages are in the
\* order in which they first appear.
NestFlatList(flat_list) ==
    LET stage_of == [k \in DOMAIN flat_list |-> StageOf(flat_list[k])]
        first(k) == \A j \in 1..(k - 1) : stage_of[j] # stage_of[k]
        firsts   == SelectSeq([k \in DOMAIN flat_list |-> k], first)
        under(g) == SelectSeq(flat_list,
                              LAMBDA item :
                                  StageOf(item) = stage_of[firsts[g]])
    IN  [g \in DOMAIN firsts |->
            [stage |-> stage_of[firsts[g]],
             types |-> [t \in DOMAIN under(g) |->
                          [type_name |-> under(g)[t].type_name,
                           typical_url_patterns |->
                               under(g)[t].typical_url_patterns]]]]

\* json.dump writes the keys of a dictionary as strings: None as "null".
JsonKey(key) == IF key = PyNone THEN "null" ELSE key

JsonDumpObject(nested) ==
    [g \in DOMAIN nested |->
        [stage |-> JsonKey(nested[g].stage), types |-> nested[g].types]]

\* json.load builds the dictionary of an object: a key that the text holds
\* twice has its first place and its last value.
JsonLoadObject(object) ==
    LET first(g) == \A j \in 1..(g - 1) : object[j].stage # object[g].stage
        firsts   == SelectSeq([g \in DOMAIN object |-> g], first)
        last(g)  == CHOOSE j \in DOMAIN object :
                        /\ object[j].stage = object[g].stage
                        /\ \A h \in DOMAIN object :
                               object[h].stage = object[g].stage => h <= j
    IN  [n \in DOMAIN firsts |->
            [stage |-> object[firsts[n]].stage,
             types |-> object[last(firsts[n])].types]]

\* "core_page_types": self.core_page_types_nested or self.core_page_types
TypesValue(nested) ==
    IF nested # << >>
    THEN [kind |-> "dict", nested |-> JsonDumpObject(nested)]
    ELSE [kind |-> "list", nested |-> << >>]

\* _load_core_page_types succeeds: json.load does, and the value has
\* .items().  Otherwise the exception is logged and the fields are kept.
TypesLoadOk(doc) == Loadable(doc) /\ doc.val.kind = "dict"

(***************************************************************************)
(* LLMPlanner: the pattern compiler                                        *)
(***************************************************************************)
\* re.escape: a backslash before each special character.
SpecialChars == {"*", "\\", ".", "?", "-"}

Escape(pat) ==
    Concat([k \in DOMAIN pat |->
              IF pat[k] \in SpecialChars THEN << "\\", pat[k] >>
              ELSE << pat[k] >>])

\* .replace(r"\\*", ".*"): the three characters backslash, backslash, star.
RECURSIVE ReplaceWild(_)
ReplaceWild(s) ==
    IF Len(s) >= 3 /\ SubSeq(s, 1, 3) = << "\\", "\\", "*" >>
    THEN << ".", "*" >> \o ReplaceWild(SubSeq(s, 4, Len(s)))
    ELSE IF s = << >> THEN << >>
    ELSE << Head(s) >> \o ReplaceWild(Tail(s))

\* The regular expression as its items: a literal character (escaped or
\* not), any character, each possibly under a star.
RECURSIVE Items(_)
Items(s) ==
    IF s = << >> THEN << >>
    ELSE LET esc  == Head(s) = "\\" /\ Len(s) >= 2
             n    == IF esc THEN 2 ELSE 1
             atom == IF esc THEN [any |-> FALSE, c |-> s[2]]
                     ELSE IF Head(s) = "." THEN [any |-> TRUE, c |-> "."]
                     ELSE [any |-> FALSE, c |-> Head(s)]
             star == Len(s) > n /\ s[n + 1] = "*"
             rest == SubSeq(s, n + (IF star THEN 2 ELSE 1), Len(s))
         IN  << [any |-> atom.any, c |-> atom.c, star |-> star] >>
                 \o Items(rest)

\* The root pattern compiled as every other pattern is: "/" as a prefix.
CompileRegex_RootAsPrefix(raw_pat) ==
    [root |-> FALSE, items |-> Items(ReplaceWild(Escape(raw_pat)))]

\* pat_regex: "^/$" for the root pattern, else the escaped pattern.
CompileRegex(raw_pat) ==
    IF raw_pat = << "/" >> THEN [root |-> TRUE, items |-> << >>]
    ELSE [root |-> FALSE, items |-> Items(ReplaceWild(Escape(raw_pat)))]

\* regex.match(text): the items match a prefix of the text.
RECURSIVE MatchItems(_, _)
MatchItems(items, text) ==
    IF items = << >> THEN TRUE
    ELSE LET it   == Head(items)
             hits == text # << >> /\ (it.any \/ it.c = Head(text))
         IN  IF it.star
             THEN MatchItems(Tail(items), text)
                  \/ (hits /\ MatchItems(items, Tail(text)))
             ELSE hits /\ MatchItems(Tail(items), Tail(text))

RegexMatch(regex, text) ==
    IF regex.root THEN text = << "/" >> ELSE MatchItems(regex.items, text)

\* compiled.append((stage, type_name, regex, len(raw_pat)))
Matchers(nested) ==
    Concat([g \in DOMAIN nested |->
      Concat([t \in DOMAIN nested[g].types |->
        [p \in DOMAIN nested[g].types[t].typical_url_patterns |->
           [stage |-> nested[g].stage,
            type_name |-> nested[g].types[t].type_name,
            regex |-> CompileRegex(
                          nested[g].types[t].typical_url_patterns[p]),
            specificity |->
                Len(nested[g].types[t].typical_url_patterns[p])]]])])

\* compiled.sort(key=lambda x: -x[3]): stable, longest pattern first.
RECURSIVE InsertDesc(_, _)
InsertDesc(m, sorted) ==
    IF sorted = << >> THEN << m >>
    ELSE IF Head(sorted).specificity >= m.specificity
         THEN << Head(sorted) >> \o InsertDesc(m, Tail(sorted))
         ELSE << m >> \o sorted

\* The list left in taxonomy encounter order.
SortDesc_EncounterOrder(ms) == ms

RECURSIVE SortDesc(_)
SortDesc(ms) ==
    IF ms = << >> THEN << >>
    ELSE InsertDesc(ms[Len(ms)], SortDesc(SubSeq(ms, 1, Len(ms) - 1)))

\* _compiled_patterns is None until the first compilation.
NoPatterns == [none |-> TRUE, list |-> << >>]

\* A compiler that adds the matchers to the list it has.
CompileCoreTypePatterns_Appends(compiled, nested) ==
    [none |-> FALSE, list |-> SortDesc(compiled.list \o Matchers(nested))]

\* _compile_core_type_patterns: a no-op once the list is non-empty.
CompileCoreTypePatterns(compiled, nested) ==
    IF compiled.list # << >> THEN compiled
    ELSE [none |-> FALSE, list |-> SortDesc(Matchers(nested))]

\* A pattern that the parsed JSON gives as null: None, not a string.
JsonNull == << "null" >>

\* raw_pat.strip() raises AttributeError for a pattern that is no string;
\* the try of the loop only covers re.compile and only catches re.error,
\* which escaped text never raises.  So the compiler raises, unless it
\* returned at once, when the taxonomy holds such a pattern.
CompileRaises(compiled, nested) ==
    /\ compiled.list = << >>
    /\ \E g \in DOMAIN nested : \E t \in DOMAIN nested[g].types :
          JsonNull \in Range(nested[g].types[t].typical_url_patterns)

(***************************************************************************)
(* LLMPlanner: classification and selection                                *)
(***************************************************************************)
InSeq(x, s) == \E k \in DOMAIN s : s[k] = x

\* netloc.lower()
LowerToken(t) ==
    CASE t = "WWW." -> "www."
      [] t = "Shop.Example" -> "shop.example"
      [] OTHER -> t

Lower(host) == [k \in DOMAIN host |-> LowerToken(host[k])]

\* The host tokens that start with ":".
Ports == {":443", ":8080"}

\* host.split(":")[0] when ":" is in the host: what precedes the port.
RECURSIVE StripPort(_)
StripPort(host) ==
    IF host = << >> \/ Head(host) \in Ports THEN << >>
    ELSE << Head(host) >> \o StripPort(Tail(host))

\* host[4:] when the host starts with "www."
StripWww(host) ==
    IF host # << >> /\ Head(host) = "www." THEN Tail(host) ELSE host

\* urllib.parse.urlparse raises ValueError ("Invalid IPv6 URL") when the
\* netloc holds "[" and no "]".
UrlParseRaises(slashes, host) == slashes = 2 /\ InSeq("[", host)

\* urlparse(...).netloc: the host when "//" follows the scheme, else "".
Netloc(slashes, host) == IF slashes = 2 THEN host ELSE << >>

\* urlparse(...).path: without "//" what follows the scheme is the path.
Path(slashes, host, path) ==
    IF slashes = 2 THEN path
    ELSE [k \in 1..slashes |-> "/"] \o host \o path

\* real_part = parsed.path, "/" when that is empty, then "?" and the
\* query when there is one.
PathAndQuery(path, query) ==
    (IF path = << >> THEN << "/" >> ELSE path)
        \o (IF query = << >> THEN << >> ELSE << "?" >> \o query)

\* The URL as a string, character by character (the prefix of the
\* archive and the scheme each count as one character).
Text(url) ==
    (IF url.wayback
     THEN << "https://web.archive.org/web/", url.ts, "/" >> ELSE << >>)
        \o << "http:" >> \o [k \in 1..url.slashes |-> "/"]
        \o url.host \o url.path
        \o (IF url.query = << >> THEN << >> ELSE << "?" >> \o url.query)

\* re.search(r"/web/\d+/(https?://.*)", url) finds the embedded URL: the
\* expression asks for two slashes after its scheme.
UnderlyingFound(url) == url.wayback /\ url.slashes = 2

\* underlying.replace("http:/", "http://", 1) when underlying starts with
\* "http:/" and not with "http://" (the same for https).
RepairScheme(slashes) == IF slashes = 1 THEN 2 ELSE slashes

\* The loop body of _classify_candidate_urls up to the domain filter: the
\* host and the path-and-query the link is matched by, or the exception
\* urlparse raises.
CandidateLocation(url) ==
    IF url.wayback
    THEN IF UnderlyingFound(url)
         THEN LET slashes == RepairScheme(url.slashes)
              IN  [raises |-> UrlParseRaises(slashes, url.host),
                   candidate_host |->
                       StripWww(StripPort(Lower(Netloc(slashes, url.host)))),
                   real_part |->
                       PathAndQuery(Path(slashes, url.host, url.path),
                                    url.query)]
         ELSE [raises |-> FALSE,
               candidate_host |-> << >>,
               real_part |-> Text(url)]
    ELSE [raises |-> UrlParseRaises(url.slashes, url.host),
          candidate_host |-> Lower(Netloc(url.slashes, url.host)),
          real_part |->
              PathAndQuery(Path(url.slashes, url.host, url.path),
                           url.query)]

CandidateHost(url) == CandidateLocation(url).candidate_host

\* The path and query of the page a link stands for.
RealPart(url) == CandidateLocation(url).real_part

\* homepage_url = "": the default of _classify_candidate_urls.
NoHome == PlainUrl(0, << >>, << >>, << >>)

\* _get_home_host raises when one of its two urlparse calls does.
GetHomeHostRaises(homepage_url) ==
    UrlParseRaises(homepage_url.slashes, homepage_url.host)

\* _get_home_host: the host of the embedded URL when the archive's
\* address is the netloc and re.search(r"/web/\d+/(https?://[^/]+)")
\* finds it; else the netloc itself; port and "www." stripped.
GetHomeHost(homepage_url) ==
    LET host ==
          IF homepage_url.wayback
          THEN IF UnderlyingFound(homepage_url)
               THEN Lower(Netloc(RepairScheme(homepage_url.slashes),
                                 homepage_url.host))
               ELSE << "web.archive.org" >>
          ELSE Lower(Netloc(homepage_url.slashes, homepage_url.host))
    IN  StripWww(StripPort(host))

\* home_host = "" unless a homepage_url is given.
HomeHost(homepage_url) ==
    IF homepage_url = NoHome THEN << >> ELSE GetHomeHost(homepage_url)

(***************************************************************************)
(* URLProcessor: discovery                                                 *)
(***************************************************************************)
\* A page of another site, archived.
Foreign ==
    WaybackUrl("2015", 2, << "other.example" >>, << "/", "p" >>, << >>)

\* urljoin(homepage_url, href) for the links of the anchor page: both
\* anchor pages link to the page P and to a page of another site.
PageLinks(homepage_url) == << P, Foreign >>

\* "if "/web/" in full_url and "http:/" in full_url and "http://" not in
\*  full_url: full_url = full_url.replace("http:/", "http://")"
RepairJoined(full_url) ==
    IF full_url.wayback /\ full_url.slashes = 1
    THEN [full_url EXCEPT !.slashes = 2] ELSE full_url

\* _extract_home_host: the host of the embedded URL when the archive's
\* address is the netloc and re.search(r"/web/\d+/(https?://[^/]+)")
\* finds it; else the netloc itself; port and "www." stripped.
ExtractHomeHost(u) ==
    LET host ==
          IF u.wayback
          THEN IF UnderlyingFound(u)
               THEN Lower(Netloc(RepairScheme(u.slashes), u.host))
               ELSE << "web.archive.org" >>
          ELSE Lower(Netloc(u.slashes, u.host))
    IN  StripWww(StripPort(host))

\* "if candidate_host == "" or candidate_host == home_host": the link is
\* of the site of the anchor page.  (No URL of the model has a fragment
\* or matches an exclude pattern.)
SameSite(homepage_url, full_url) ==
    \/ ExtractHomeHost(full_url) = << >>
    \/ ExtractHomeHost(full_url) = ExtractHomeHost(homepage_url)

\* The links in the order in which discovery meets them: the anchor
\* itself, then the links of its page that are of its site.
Encountered(homepage_url) ==
    << homepage_url >>
        \o SelectSeq([k \in DOMAIN PageLinks(homepage_url) |->
                         RepairJoined(PageLinks(homepage_url)[k])],
                     LAMBDA full_url : SameSite(homepage_url, full_url))

\* list(discovered_links): the elements of the set, each once, in the
\* iteration order of the set, which is any order.
ListOfSet(s) == {t \in [1..Cardinality(s) -> s] : Range(t) = s}

\* discover_internal_links: the fetch of the anchor page succeeds
\* (ok = TRUE) and the result is list(set) of the anchor and the links of
\* the page; or it fails.
DiscoverOutcomes(homepage_url) ==
    { [ok |-> TRUE, links |-> l] :
        l \in ListOfSet(Range(Encountered(homepage_url))) }
    \cup { [ok |-> FALSE, links |-> DiscoveryFailed(homepage_url)] }

\* "if home_host and candidate_host and candidate_host != home_host and
\*  candidate_host != f"www.{home_host}": continue"
DomainFiltered(home_host, candidate_host) ==
    /\ home_host # << >>
    /\ candidate_host # << >>
    /\ candidate_host # home_host
    /\ candidate_host # << "www." >> \o home_host

\* A loop without the break: the last matcher that matches, 0 when none
\* does.
FirstMatch_Last(list, text) ==
    LET hits == {k \in DOMAIN list : RegexMatch(list[k].regex, text)}
    IN  IF hits = {} THEN 0
        ELSE CHOOSE k \in hits : \A j \in hits : j <= k

\* The first matcher, in list order, that matches: 0 when none does.
FirstMatch(list, text) ==
    LET hits == {k \in DOMAIN list : RegexMatch(list[k].regex, text)}
    IN  IF hits = {} THEN 0
        ELSE CHOOSE k \in hits : \A j \in hits : k <= j

\* The loop of _classify_candidate_urls over the links, when no urlparse
\* raises.
RECURSIVE ClassifyLinks(_, _, _)
ClassifyLinks(valid_links, home_host, list) ==
    IF valid_links = << >> THEN << >>
    ELSE LET url == Head(valid_links)
             k   == IF DomainFiltered(home_host, CandidateHost(url)) THEN 0
                    ELSE FirstMatch(list, RealPart(url))
             one == IF k = 0 THEN << >>
                    ELSE << [url |-> url,
                             customer_journey_stage |-> list[k].stage,
                             type_name |-> list[k].type_name] >>
         IN  one \o ClassifyLinks(Tail(valid_links), home_host, list)

\* _classify_candidate_urls has no handler: what urlparse raises for the
\* home page or for one link leaves the function.
ClassifyRaises(valid_links, homepage_url) ==
    \/ homepage_url # NoHome /\ GetHomeHostRaises(homepage_url)
    \/ \E k \in DOMAIN valid_links : CandidateLocation(valid_links[k]).raises

\* _classify_candidate_urls(year, valid_links, homepage_url), when it
\* returns.  generate_llm_planning passes no homepage_url.
ClassifyCandidateUrls(valid_links, homepage_url, list) ==
    ClassifyLinks(valid_links, HomeHost(homepage_url), list)

ClassifiedUrlList(classified) ==
    [k \in DOMAIN classified |-> classified[k].url]

\* _select_core_urls_from_classification: the service fails (the call or
\* the parse raises), or answers with a recommended_url_list.
SelectOutcomes(classified) ==
    { [ok |-> FALSE, list |-> << >>] } \cup
    { [ok |-> TRUE, list |-> l] :
        l \in { << >>, ClassifiedUrlList(classified), << H >> } }

\* Keeping the last occurrence of each instead of the first.
RECURSIVE Dedup_KeepLast(_)
Dedup_KeepLast(s) ==
    IF s = << >> THEN << >>
    ELSE LET back == Dedup_KeepLast(Tail(s))
         IN  IF InSeq(Head(s), back) THEN back ELSE << Head(s) >> \o back

\* list(dict.fromkeys(urls)): the first occurrence of each, in order.
RECURSIVE Dedup(_)
Dedup(s) ==
    IF s = << >> THEN << >>
    ELSE LET front == Dedup(SubSeq(s, 1, Len(s) - 1))
             last  == s[Len(s)]
         IN  IF InSeq(last, front) THEN front ELSE Append(front, last)

Min(a, b) == IF a <= b THEN a ELSE b

\* enforce = True if enforce_in_valid is None else enforce_in_valid
Enforce(enforce_in_valid) ==
    IF enforce_in_valid = "None" THEN TRUE ELSE enforce_in_valid = "True"

\* The loop that appends every recommended URL, whatever enforce is.
RecommendedUrls_NoFilter(recommended_url_list, valid_content_urls, enforce) ==
    recommended_url_list

\* The loop over core_url_data["recommended_url_list"]: with enforce, only
\* the URLs that are in valid_content_urls are appended.
RecommendedUrls(recommended_url_list, valid_content_urls, enforce) ==
    IF enforce
    THEN SelectSeq(recommended_url_list,
                   LAMBDA u : InSeq(u, valid_content_urls))
    ELSE recommended_url_list

\* _optimize_crawl_strategy(llm_analysis, valid_content_urls, year,
\*                          enforce_in_valid), where list is
\* llm_analysis["core_url_recommendations"]["recommended_url_list"] (the
\* empty list when the answer has no such key) and enforce is
\* Enforce(enforce_in_valid).  The clock reading of analysis_time is the
\* one token "now".
OptimizeCrawlStrategy(list, valid_content_urls, year, enforce) ==
    LET dedup == Dedup(RecommendedUrls(list, valid_content_urls, enforce))
        overlap == Cardinality({k \in DOMAIN dedup :
                                   InSeq(dedup[k], valid_content_urls)})
        recommended ==
            IF dedup = << >>
            THEN SubSeq(valid_content_urls, 1,
                        Min(FallbackCount, Len(valid_content_urls)))
            ELSE dedup
    IN  [analysis_time |-> "now",
         using_real_llm |-> TRUE,
         llm_model |-> "openai/gpt-4o-mini",
         year |-> year,
         discovered_links_count |-> Len(valid_content_urls),
         valid_content_urls_count |-> Len(valid_content_urls),
         recommended_crawl_pages |-> recommended,
         recommended_pages_count |-> Len(recommended),
         recommended_in_valid_overlap |-> overlap,
         enforce_recommended_in_valid_list |-> enforce,
         core_url_details |-> [recommended_url_list |-> list]]

\* One period of generate_llm_planning's loop, when nothing raises:
\* final_analysis, with the classified URLs merged in.
FinalAnalysis(year, valid_links, list, recommended_url_list) ==
    LET classified_urls == ClassifyCandidateUrls(valid_links, NoHome, list)
    IN  OptimizeCrawlStrategy(recommended_url_list, valid_links, year, FALSE)
        @@ [classified_urls_count |-> Len(classified_urls),
            classified_urls |-> classified_urls]

(***************************************************************************)
(* ScenarioAnalyzer                                                        *)
(***************************************************************************)
\* _identify_scenarios_in_page on a page whose content was fetched: the
\* scenarios one of whose keywords the text contains.
PageScenarios(url) ==
    CASE url = A1 -> {"1.1_Home"}
      [] url = P  -> {"2.1_Product"}
      [] OTHER    -> {}

\* _analyze_scenarios_for_year: fetched is the set of crawl URLs whose
\* content get_page_content returned; for the others it returned None and
\* the page contributes no scenario.  Every page counts as successful.
AnalyzeScenariosForYear(crawl_urls, fetched) ==
    [year_scenarios |->
         UNION {PageScenarios(crawl_urls[k]) :
                   k \in {j \in DOMAIN crawl_urls : crawl_urls[j] \in fetched}},
     successful_pages |-> Len(crawl_urls)]

\* self.yearly_scenario_data[year] after a successful analysis.  The list
\* of scenarios is list(set): it is kept as the set.
ScenarioEntry(crawl_urls, result) ==
    [identified_scenarios |-> result.year_scenarios,
     total_scenario_count |-> Cardinality(result.year_scenarios),
     llm_recommended_pages_count |-> Len(crawl_urls),
     successful_pages |-> result.successful_pages,
     error |-> FALSE]

\* self.yearly_scenario_data[year] in the handler of "except Exception".
ScenarioErrorEntry ==
    [identified_scenarios |-> {},
     total_scenario_count |-> 0,
     llm_recommended_pages_count |-> 0,
     successful_pages |-> 0,
     error |-> TRUE]

VARIABLES
    \* persisted documents
    linksDoc,       \* <company>_filtered_links.json: year_links_map
    typesDoc,       \* <company>_core_page_types.json: core_page_types
    planDoc,        \* <company>_llm_planning.json: yearly_analysis_results
    scenDoc,        \* <company>_scenarios.json: yearly_detailed_results
    \* the running process
    pc,                     \* position of main()
    i,                      \* index of the current loop
    year_links_map,         \* URLProcessor / main
    core_page_types,        \* LLMPlanner.core_page_types
    core_page_types_nested, \* LLMPlanner.core_page_types_nested
    compiled_patterns,      \* LLMPlanner._compiled_patterns
    yearly_analysis,        \* generate_llm_planning: yearly_analysis
    llm_planning_results,   \* main: what load_llm_planning returned
    yearly_scenario_data,   \* ScenarioAnalyzer.yearly_scenario_data
    \* observation of the run (history, not program state)
    calls,          \* collaborator calls made by the current run
    failed,         \* failures met by the current run
    done,           \* units completed by the current run
    start,          \* the documents as the current run found them
    exit,           \* how the last run ended
    hist,           \* what earlier runs did
    faults,         \* the number of faults so far
    \* one call of LLMPlanner._classify_candidate_urls
    valid_links,    \* its argument valid_links
    homepage_url,   \* its argument homepage_url
    results,        \* what it returned, or that it raised
    \* one call of LLMPlanner._optimize_crawl_strategy
    llm_analysis,       \* the recommended_url_list of its argument
    valid_content_urls, \* its argument valid_content_urls
    enforce_in_valid,   \* its argument enforce_in_valid
    analysis_result,    \* what it returned
    \* the normalization of one URL, and of the URL rebuilt from the result
    given_url,      \* the URL
    normalized,     \* its host and real_part, and its home host
    renormalized,   \* those of the URL rebuilt from them
    \* main(): the input file and what loading it gave
    input_file,         \* the file of timestamped URLs
    historical_urls,    \* what load_historical_urls_from_file ended with
    \* the taxonomy of the run that generated it, and what it gave
    generated,
    \* runs of generate_llm_planning under way at the same time
    writers,        \* each run's position and its yearly_analysis
    written         \* the periods whose result a completed write persisted

docs == << linksDoc, typesDoc, planDoc, scenDoc >>

mem == << i, year_links_map, core_page_types, core_page_types_nested,
          compiled_patterns, yearly_analysis, llm_planning_results,
          yearly_scenario_data >>

obs == << calls, failed, done, start, exit, hist >>

strategy == << llm_analysis, valid_content_urls, enforce_in_valid,
              analysis_result >>

normalization == << given_url, normalized, renormalized >>

loading == << input_file, historical_urls >>

others == << loading, generated, writers, written >>

call == << valid_links, homepage_url, results, strategy, normalization,
          others >>

vars == << docs, pc, mem, obs, faults, call >>

\* The faults (a kill, a failed write, a failing collaborator) of a
\* behaviour are bounded.
MaxFaults == 2

Fault == faults < MaxFaults /\ faults' = faults + 1

NoFault == faults' = faults

(***************************************************************************)
(* The initial state: no document yet, no run yet.                         *)
(***************************************************************************)
NoCalls == [disc |-> {}, tax |-> FALSE, sel |-> {}, fetch |-> {}]

NoFailure ==
    [disc |-> {}, tax |-> FALSE, sel |-> {}, fetch |-> {},
     planWrite |-> {}, scen |-> {}, io |-> FALSE]

NothingDone == [links |-> {}, tax |-> "no", plan |-> {}, scen |-> {}]

\* No call of _classify_candidate_urls has ended yet.
NotCalled == [state |-> "none", list |-> << >>]

\* Nothing was normalized yet.
NotNormalized ==
    [candidate_host |-> << >>, real_part |-> << >>, home_host |-> << >>]

NoNormalization ==
    /\ given_url = NoHome
    /\ normalized = NotNormalized
    /\ renormalized = NotNormalized

\* A line of the input file: blank, or the text of a URL.
Line(u) == [blank |-> FALSE, url |-> u]

\* The input file as main() of the pipeline found it, and what loading it
\* returned.
InputLoaded ==
    /\ input_file = [st |-> "ok", lines |-> << Line(A1), Line(A2) >>]
    /\ historical_urls = [state |-> "returned", list |-> HistoricalUrls]

\* No taxonomy was generated and persisted yet.
NotGenerated ==
    [nested |-> << >>, compiled |-> [state |-> "none", list |-> << >>],
     results |-> NotCalled]

\* One run at a time: no second run of generate_llm_planning.
NoOthers ==
    /\ InputLoaded
    /\ generated = NotGenerated
    /\ writers = << >>
    /\ written = {}

\* No call of _optimize_crawl_strategy is made.
NoStrategy ==
    /\ llm_analysis = << >>
    /\ valid_content_urls = << >>
    /\ enforce_in_valid = "False"
    /\ analysis_result = EmptyDict

FreshMemory ==
    /\ i' = 1
    /\ year_links_map' = EmptyDict
    /\ core_page_types' = << >>
    /\ core_page_types_nested' = << >>
    /\ compiled_patterns' = NoPatterns
    /\ yearly_analysis' = EmptyDict
    /\ llm_planning_results' = EmptyDict
    /\ yearly_scenario_data' = EmptyDict

Init ==
    /\ linksDoc = Absent(EmptyDict)
    /\ typesDoc = Absent(NoTypes)
    /\ planDoc = Absent(EmptyDict)
    /\ scenDoc = Absent(EmptyDict)
    /\ pc = "idle"
    /\ i = 1
    /\ year_links_map = EmptyDict
    /\ core_page_types = << >>
    /\ core_page_types_nested = << >>
    /\ compiled_patterns = NoPatterns
    /\ yearly_analysis = EmptyDict
    /\ llm_planning_results = EmptyDict
    /\ yearly_scenario_data = EmptyDict
    /\ calls = NoCalls
    /\ failed = NoFailure
    /\ done = NothingDone
    /\ start = [links |-> linksDoc, types |-> typesDoc,
                plan |-> planDoc, scen |-> scenDoc]
    /\ exit = "none"
    /\ hist = [okDisc |-> {}, torn |-> FALSE, taxFailed |-> FALSE]
    /\ faults = 0
    /\ valid_links = << >>
    /\ homepage_url = NoHome
    /\ results = NotCalled
    /\ NoStrategy
    /\ NoNormalization
    /\ NoOthers

\* The data of a document that exists and loads; {} otherwise.
LoadDict(doc) == IF Loadable(doc) THEN doc.val ELSE EmptyDict

\* The run ends: main() returns (how = "normal"), or an exception leaves
\* main() (how = "exception").
EndRun(how) ==
    /\ pc' = "idle"
    /\ exit' = how
    /\ FreshMemory

(***************************************************************************)
(* main(), step 2: URLProcessor.process_urls_for_company                   *)
(***************************************************************************)
\* main() starts and process_urls_for_company loads the existing links.
StartRun ==
    /\ UNCHANGED call
    /\ pc = "idle"
    /\ pc' = "links_loop"
    /\ i' = 1
    /\ year_links_map' = LoadDict(linksDoc)
    /\ calls' = NoCalls
    /\ failed' = NoFailure
    /\ done' = NothingDone
    /\ start' = [links |-> linksDoc, types |-> typesDoc,
                 plan |-> planDoc, scen |-> scenDoc]
    /\ hist' = [hist EXCEPT !.taxFailed = failed.tax,
                             !.okDisc = @ \cup done.links]
    /\ UNCHANGED << docs, core_page_types, core_page_types_nested,
                    compiled_patterns, yearly_analysis,
                    llm_planning_results, yearly_scenario_data, exit >>
    /\ NoFault

\* A year that already has links is skipped.
LinksSkip ==
    /\ UNCHANGED call
    /\ pc = "links_loop"
    /\ i <= Len(HistoricalUrls)
    /\ SkipLinks(year_links_map, HistoricalUrls[i].year)
    /\ i' = i + 1
    /\ UNCHANGED << docs, pc, year_links_map, core_page_types,
                    core_page_types_nested, compiled_patterns,
                    yearly_analysis, llm_planning_results,
                    yearly_scenario_data, obs >>
    /\ NoFault

\* The links a year gets from a discovery, after filtering.
YearLinks(outcome) == FilterValidLinks(outcome.links)

\* discover_internal_links and _filter_valid_links for the year.  The
\* handler of "except Exception" around them is never entered:
\* discover_internal_links catches what it raises.
LinksDiscover ==
    /\ UNCHANGED call
    /\ pc = "links_loop"
    /\ i <= Len(HistoricalUrls)
    /\ LET year == HistoricalUrls[i].year
       IN  /\ ~SkipLinks(year_links_map, year)
           /\ \E o \in DiscoverOutcomes(HistoricalUrls[i].url) :
                /\ year_links_map' = Put(year_links_map, year, YearLinks(o))
                /\ calls' = [calls EXCEPT !.disc = @ \cup {year}]
                /\ failed' = IF o.ok THEN failed
                             ELSE [failed EXCEPT !.disc = @ \cup {year}]
                /\ done' = IF o.ok /\ YearLinks(o) # << >>
                           THEN [done EXCEPT !.links = @ \cup {year}]
                           ELSE done
                /\ IF o.ok THEN NoFault ELSE Fault
    /\ i' = i + 1
    /\ UNCHANGED << docs, pc, core_page_types, core_page_types_nested,
                    compiled_patterns, yearly_analysis,
                    llm_planning_results, yearly_scenario_data,
                    start, exit, hist >>

\* After the loop: open(output_file, 'w') truncates the document.
LinksOpen ==
    /\ UNCHANGED call
    /\ pc = "links_loop"
    /\ i > Len(HistoricalUrls)
    /\ linksDoc' = Torn(EmptyDict)
    /\ pc' = "links_dump"
    /\ UNCHANGED << typesDoc, planDoc, scenDoc, mem, obs >>
    /\ NoFault

\* json.dump completes; main() reloads the links (load_filtered_links),
\* which are never {} as the input is not empty.
LinksDump ==
    /\ UNCHANGED call
    /\ pc = "links_dump"
    /\ linksDoc' = Whole(year_links_map)
    /\ pc' = "types"
    /\ UNCHANGED << typesDoc, planDoc, scenDoc, mem, obs >>
    /\ NoFault

(***************************************************************************)
(* main(), step 3: LLMPlanner.generate_core_page_types                     *)
(***************************************************************************)
\* The fields after _load_core_page_types(doc): set when the load
\* succeeds, kept when it raises (the exception is only logged).
LoadedNested(doc, nested) ==
    IF TypesLoadOk(doc) THEN JsonLoadObject(doc.val.nested) ELSE nested

LoadedTypes(doc, flat) ==
    IF TypesLoadOk(doc) THEN FlatTypes(JsonLoadObject(doc.val.nested))
    ELSE flat

\* The document exists: it is loaded and the service is not called.
TypesLoad ==
    /\ UNCHANGED call
    /\ pc = "types"
    /\ Exists(typesDoc)
    /\ core_page_types_nested' = LoadedNested(typesDoc, core_page_types_nested)
    /\ core_page_types' = LoadedTypes(typesDoc, core_page_types)
    /\ done' = [done EXCEPT !.tax = IF TypesLoadOk(typesDoc) THEN "loaded"
                                    ELSE "load_failed"]
    /\ pc' = "plan_start"
    /\ UNCHANGED << docs, i, year_links_map, compiled_patterns,
                    yearly_analysis, llm_planning_results,
                    yearly_scenario_data, calls, failed, start, exit, hist >>
    /\ NoFault

\* No document: the service is called, answers with a JSON object, the
\* fields are set from it and the document is opened for writing.
TypesGenerate ==
    /\ UNCHANGED call
    /\ pc = "types"
    /\ ~Exists(typesDoc)
    /\ \E answer \in TaxAnswers :
         /\ core_page_types_nested' = Parsed(answer)
         /\ core_page_types' = FlatTypes(Parsed(answer))
         /\ IF answer = "good" THEN NoFault ELSE Fault
    /\ calls' = [calls EXCEPT !.tax = TRUE]
    /\ typesDoc' = Torn(NoTypes)
    /\ pc' = "types_dump"
    /\ UNCHANGED << linksDoc, planDoc, scenDoc, i, year_links_map,
                    compiled_patterns, yearly_analysis,
                    llm_planning_results, yearly_scenario_data,
                    failed, done, start, exit, hist >>

\* The document written before the answer is processed: an empty
\* taxonomy is persisted although the generation failed.
TypesAfterFailure_Writes(doc) == Whole(TypesValue(<< >>))

\* What a failed generation leaves of the document.
TypesAfterFailure(doc) == doc

\* No document, and the service fails: the exception leaves
\* generate_core_page_types and main(), which logs and re-raises it.
TypesGenerateFails ==
    /\ UNCHANGED call
    /\ pc = "types"
    /\ ~Exists(typesDoc)
    /\ \E f \in TaxFailures :
         /\ calls' = [calls EXCEPT !.tax = TRUE]
         /\ failed' = [failed EXCEPT !.tax = TRUE]
    /\ typesDoc' = TypesAfterFailure(typesDoc)
    /\ EndRun("exception")
    /\ UNCHANGED << linksDoc, planDoc, scenDoc, done, start, hist >>
    /\ Fault

\* json.dump completes.
TypesDump ==
    /\ UNCHANGED call
    /\ pc = "types_dump"
    /\ typesDoc' = Whole(TypesValue(core_page_types_nested))
    /\ done' = [done EXCEPT !.tax = "generated"]
    /\ pc' = "plan_start"
    /\ UNCHANGED << linksDoc, planDoc, scenDoc, mem, calls, failed,
                    start, exit, hist >>
    /\ NoFault

(***************************************************************************)
(* main(), step 3: LLMPlanner.generate_llm_planning                        *)
(***************************************************************************)
\* The existing results are loaded; the core page types are loaded if the
\* field is empty (the document exists by now); the patterns are compiled.
PlanStart ==
    /\ UNCHANGED call
    /\ pc = "plan_start"
    /\ yearly_analysis' = LoadDict(planDoc)
    /\ LET reload == core_page_types = << >>
           nested == IF reload
                     THEN LoadedNested(typesDoc, core_page_types_nested)
                     ELSE core_page_types_nested
       IN  /\ core_page_types_nested' = nested
           /\ core_page_types' =
                  IF reload THEN LoadedTypes(typesDoc, core_page_types)
                  ELSE core_page_types
           /\ compiled_patterns' =
                  CompileCoreTypePatterns(compiled_patterns, nested)
    /\ i' = 1
    /\ pc' = "plan_loop"
    /\ UNCHANGED << docs, year_links_map, llm_planning_results,
                    yearly_scenario_data, obs >>
    /\ NoFault

\* "if year in yearly_analysis: continue"
SkipPlan(analysis, year) == year \in DOMAIN analysis

PlanSkip ==
    /\ UNCHANGED call
    /\ pc = "plan_loop"
    /\ i <= Len(Keys(year_links_map))
    /\ SkipPlan(yearly_analysis, Keys(year_links_map)[i])
    /\ i' = i + 1
    /\ UNCHANGED << docs, pc, year_links_map, core_page_types,
                    core_page_types_nested, compiled_patterns,
                    yearly_analysis, llm_planning_results,
                    yearly_scenario_data, obs >>
    /\ NoFault

\* The handler stores an empty result for the period, as the scenario
\* analyzer's handler does.
AfterPlanFailure_StoresEntry(analysis, year) ==
    Put(analysis, year, FinalAnalysis(year, << >>, << >>, << >>))

\* yearly_analysis after a period whose classification or selection
\* raised: the handler only logs.
AfterPlanFailure(analysis, year) == analysis

\* The year is classified, the selection service answers, the result is
\* stored and _write_planning_file opens the document.
PlanYear ==
    /\ UNCHANGED << strategy, normalization, others >>
    /\ pc = "plan_loop"
    /\ i <= Len(Keys(year_links_map))
    /\ LET year == Keys(year_links_map)[i]
           year_links == year_links_map[year]
           classified == ClassifyCandidateUrls(year_links, NoHome,
                                               compiled_patterns.list)
       IN  /\ ~SkipPlan(yearly_analysis, year)
           /\ \E o \in SelectOutcomes(classified) :
                /\ o.ok
                /\ yearly_analysis' =
                       Put(yearly_analysis, year,
                           FinalAnalysis(year, year_links,
                                         compiled_patterns.list, o.list))
           /\ valid_links' = year_links
           /\ homepage_url' = NoHome
           /\ results' = [state |-> "returned", list |-> classified]
           /\ calls' = [calls EXCEPT !.sel = @ \cup {year}]
           /\ done' = [done EXCEPT !.plan = @ \cup {year}]
    /\ planDoc' = Torn(EmptyDict)
    /\ pc' = "plan_dump"
    /\ UNCHANGED << linksDoc, typesDoc, scenDoc, i, year_links_map,
                    core_page_types, core_page_types_nested,
                    compiled_patterns, llm_planning_results,
                    yearly_scenario_data, failed, start, exit, hist >>
    /\ NoFault

\* The selection service fails: the exception is caught at the period.
PlanYearFails ==
    /\ UNCHANGED << strategy, normalization, others >>
    /\ pc = "plan_loop"
    /\ i <= Len(Keys(year_links_map))
    /\ LET year == Keys(year_links_map)[i]
           classified == ClassifyCandidateUrls(year_links_map[year], NoHome,
                                               compiled_patterns.list)
       IN  /\ ~SkipPlan(yearly_analysis, year)
           /\ \E o \in SelectOutcomes(classified) : ~o.ok
           /\ valid_links' = year_links_map[year]
           /\ homepage_url' = NoHome
           /\ results' = [state |-> "returned", list |-> classified]
           /\ yearly_analysis' = AfterPlanFailure(yearly_analysis, year)
           /\ calls' = [calls EXCEPT !.sel = @ \cup {year}]
           /\ failed' = [failed EXCEPT !.sel = @ \cup {year}]
    /\ i' = i + 1
    /\ UNCHANGED << docs, pc, year_links_map, core_page_types,
                    core_page_types_nested, compiled_patterns,
                    llm_planning_results, yearly_scenario_data,
                    done, start, exit, hist >>
    /\ Fault

\* _write_planning_file: json.dump completes.
PlanDump ==
    /\ UNCHANGED call
    /\ pc = "plan_dump"
    /\ planDoc' = Whole(yearly_analysis)
    /\ i' = i + 1
    /\ pc' = "plan_loop"
    /\ UNCHANGED << linksDoc, typesDoc, scenDoc, year_links_map,
                    core_page_types, core_page_types_nested,
                    compiled_patterns, yearly_analysis,
                    llm_planning_results, yearly_scenario_data, obs >>
    /\ NoFault

\* Where generate_llm_planning goes on after a write of the period's
\* result failed: _write_planning_file logs a warning and returns.
AfterPlanWriteFailure == "plan_loop"

\* _write_planning_file: json.dump raises; the document stays torn.
PlanDumpFails ==
    /\ UNCHANGED call
    /\ pc = "plan_dump"
    /\ failed' = [failed EXCEPT
                    !.planWrite = @ \cup {Keys(year_links_map)[i]},
                    !.io = TRUE]
    /\ hist' = [hist EXCEPT !.torn = TRUE]
    /\ i' = i + 1
    /\ pc' = AfterPlanWriteFailure
    /\ UNCHANGED << docs, year_links_map, core_page_types,
                    core_page_types_nested, compiled_patterns,
                    yearly_analysis, llm_planning_results,
                    yearly_scenario_data, calls, done, start, exit >>
    /\ Fault

\* After the loop the document is written once more.
PlanFinalOpen ==
    /\ UNCHANGED call
    /\ pc = "plan_loop"
    /\ i > Len(Keys(year_links_map))
    /\ planDoc' = Torn(EmptyDict)
    /\ pc' = "plan_final_dump"
    /\ UNCHANGED << linksDoc, typesDoc, scenDoc, mem, obs >>
    /\ NoFault

PlanFinalDump ==
    /\ UNCHANGED call
    /\ pc = "plan_final_dump"
    /\ planDoc' = Whole(yearly_analysis)
    /\ pc' = "plan_done"
    /\ UNCHANGED << linksDoc, typesDoc, scenDoc, mem, obs >>
    /\ NoFault

PlanFinalDumpFails ==
    /\ UNCHANGED call
    /\ pc = "plan_final_dump"
    /\ failed' = [failed EXCEPT !.io = TRUE]
    /\ hist' = [hist EXCEPT !.torn = TRUE]
    /\ pc' = "plan_done"
    /\ UNCHANGED << docs, mem, calls, done, start, exit >>
    /\ Fault

\* load_llm_planning returns {}: main() logs the failure and returns.
LoadPlanningEmpty ==
    /\ UNCHANGED call
    /\ pc = "plan_done"
    /\ LoadDict(planDoc) = EmptyDict
    /\ EndRun("normal")
    /\ UNCHANGED << docs, calls, failed, done, start, hist >>
    /\ NoFault

(***************************************************************************)
(* main(), step 4: ScenarioAnalyzer.analyze_scenarios_for_company          *)
(***************************************************************************)
\* load_llm_planning returns the results; the analyzer loads the existing
\* scenario results.
ScenStart ==
    /\ UNCHANGED call
    /\ pc = "plan_done"
    /\ LoadDict(planDoc) # EmptyDict
    /\ llm_planning_results' = LoadDict(planDoc)
    /\ yearly_scenario_data' = LoadDict(scenDoc)
    /\ i' = 1
    /\ pc' = "scen_loop"
    /\ UNCHANGED << docs, year_links_map, core_page_types,
                    core_page_types_nested, compiled_patterns,
                    yearly_analysis, obs >>
    /\ NoFault

\* "if year in self.yearly_scenario_data: continue"
SkipScen(data, year) == year \in DOMAIN data

ScenSkip ==
    /\ UNCHANGED call
    /\ pc = "scen_loop"
    /\ i <= Len(Keys(llm_planning_results))
    /\ SkipScen(yearly_scenario_data, Keys(llm_planning_results)[i])
    /\ i' = i + 1
    /\ UNCHANGED << docs, pc, year_links_map, core_page_types,
                    core_page_types_nested, compiled_patterns,
                    yearly_analysis, llm_planning_results,
                    yearly_scenario_data, obs >>
    /\ NoFault

\* "if not crawl_urls: continue"
ScenNoUrls ==
    /\ UNCHANGED call
    /\ pc = "scen_loop"
    /\ i <= Len(Keys(llm_planning_results))
    /\ LET year == Keys(llm_planning_results)[i]
       IN  /\ ~SkipScen(yearly_scenario_data, year)
           /\ llm_planning_results[year].recommended_crawl_pages = << >>
    /\ i' = i + 1
    /\ UNCHANGED << docs, pc, year_links_map, core_page_types,
                    core_page_types_nested, compiled_patterns,
                    yearly_analysis, llm_planning_results,
                    yearly_scenario_data, obs >>
    /\ NoFault

\* The entry of a year whose pages were analysed, fetched being the pages
\* whose content was returned.
TaggedEntry(crawl_urls, fetched) ==
    ScenarioEntry(crawl_urls, AnalyzeScenariosForYear(crawl_urls, fetched))

\* The pages of the year are fetched and tagged, the entry is stored and
\* _generate_analysis_summary opens the document.
ScenYear ==
    /\ UNCHANGED call
    /\ pc = "scen_loop"
    /\ i <= Len(Keys(llm_planning_results))
    /\ LET year == Keys(llm_planning_results)[i]
           crawl_urls == llm_planning_results[year].recommended_crawl_pages
       IN  /\ ~SkipScen(yearly_scenario_data, year)
           /\ crawl_urls # << >>
           /\ \E fetched \in SUBSET Range(crawl_urls) :
                /\ yearly_scenario_data' =
                       Put(yearly_scenario_data, year,
                           TaggedEntry(crawl_urls, fetched))
                /\ failed' = IF fetched # {} THEN failed
                             ELSE [failed EXCEPT !.fetch = @ \cup {year}]
                /\ IF fetched = Range(crawl_urls) THEN NoFault ELSE Fault
           /\ calls' = [calls EXCEPT !.fetch = @ \cup {year}]
    /\ scenDoc' = Torn(EmptyDict)
    /\ pc' = "scen_dump"
    /\ UNCHANGED << linksDoc, typesDoc, planDoc, i, year_links_map,
                    core_page_types, core_page_types_nested,
                    compiled_patterns, yearly_analysis,
                    llm_planning_results, done, start, exit, hist >>

\* _generate_analysis_summary: json.dump completes.
ScenDump ==
    /\ UNCHANGED call
    /\ pc = "scen_dump"
    /\ scenDoc' = Whole(yearly_scenario_data)
    /\ done' = [done EXCEPT
                  !.scen = @ \cup {Keys(llm_planning_results)[i]}]
    /\ i' = i + 1
    /\ pc' = "scen_loop"
    /\ UNCHANGED << linksDoc, typesDoc, planDoc, year_links_map,
                    core_page_types, core_page_types_nested,
                    compiled_patterns, yearly_analysis,
                    llm_planning_results, yearly_scenario_data,
                    calls, failed, start, exit, hist >>
    /\ NoFault

\* yearly_scenario_data after the handler of "except Exception" of the
\* period: the period gets an error entry.
AfterScenFailure(data, year) == Put(data, year, ScenarioErrorEntry)

\* _generate_analysis_summary: json.dump raises; the exception is caught
\* at the period.
ScenDumpFails ==
    /\ UNCHANGED call
    /\ pc = "scen_dump"
    /\ LET year == Keys(llm_planning_results)[i]
       IN  /\ yearly_scenario_data' =
                  AfterScenFailure(yearly_scenario_data, year)
           /\ failed' = [failed EXCEPT !.scen = @ \cup {year}, !.io = TRUE]
    /\ hist' = [hist EXCEPT !.torn = TRUE]
    /\ i' = i + 1
    /\ pc' = "scen_loop"
    /\ UNCHANGED << docs, year_links_map, core_page_types,
                    core_page_types_nested, compiled_patterns,
                    yearly_analysis, llm_planning_results,
                    calls, done, start, exit >>
    /\ Fault

\* After the loop, _generate_analysis_summary with nothing to write
\* returns "" and main() ends.
ScenFinalNothing ==
    /\ UNCHANGED call
    /\ pc = "scen_loop"
    /\ i > Len(Keys(llm_planning_results))
    /\ yearly_scenario_data = EmptyDict
    /\ EndRun("normal")
    /\ UNCHANGED << docs, calls, failed, done, start, hist >>
    /\ NoFault

ScenFinalOpen ==
    /\ UNCHANGED call
    /\ pc = "scen_loop"
    /\ i > Len(Keys(llm_planning_results))
    /\ yearly_scenario_data # EmptyDict
    /\ scenDoc' = Torn(EmptyDict)
    /\ pc' = "scen_final_dump"
    /\ UNCHANGED << linksDoc, typesDoc, planDoc, mem, obs >>
    /\ NoFault

\* The last write completes and main() ends.
ScenFinalDump ==
    /\ UNCHANGED call
    /\ pc = "scen_final_dump"
    /\ scenDoc' = Whole(yearly_scenario_data)
    /\ EndRun("normal")
    /\ UNCHANGED << linksDoc, typesDoc, planDoc, calls, failed, done,
                    start, hist >>
    /\ NoFault

\* The last write raises: the exception leaves main().
ScenFinalDumpFails ==
    /\ UNCHANGED call
    /\ pc = "scen_final_dump"
    /\ failed' = [failed EXCEPT !.io = TRUE]
    /\ hist' = [hist EXCEPT !.torn = TRUE]
    /\ EndRun("exception")
    /\ UNCHANGED << docs, calls, done, start >>
    /\ Fault

(***************************************************************************)
(* The process is killed.                                                  *)
(***************************************************************************)
Writing ==
    {"links_dump", "types_dump", "plan_dump", "plan_final_dump",
     "scen_dump", "scen_final_dump"}

Kill ==
    /\ UNCHANGED call
    /\ pc # "idle"
    /\ hist' = [hist EXCEPT !.torn = @ \/ pc \in Writing]
    /\ EndRun("killed")
    /\ UNCHANGED << docs, calls, failed, done, start >>
    /\ Fault

Next ==
    \/ StartRun
    \/ LinksSkip
    \/ LinksDiscover
    \/ LinksOpen
    \/ LinksDump
    \/ TypesLoad
    \/ TypesGenerate
    \/ TypesGenerateFails
    \/ TypesDump
    \/ PlanStart
    \/ PlanSkip
    \/ PlanYear
    \/ PlanYearFails
    \/ PlanDump
    \/ PlanDumpFails
    \/ PlanFinalOpen
    \/ PlanFinalDump
    \/ PlanFinalDumpFails
    \/ LoadPlanningEmpty
    \/ ScenStart
    \/ ScenSkip
    \/ ScenNoUrls
    \/ ScenYear
    \/ ScenDump
    \/ ScenDumpFails
    \/ ScenFinalNothing
    \/ ScenFinalOpen
    \/ ScenFinalDump
    \/ ScenFinalDumpFails
    \/ Kill

Spec == Init /\ [][Next]_vars

(***************************************************************************)
(* LLMPlanner._compile_core_type_patterns and _classify_candidate_urls on  *)
(* their own: a planner that holds some taxonomy compiles it and then      *)
(* classifies some list of links, with or without a home page.             *)
(***************************************************************************)
\* The number of stages of a taxonomy and of links of a list.
MaxStages == 2

MaxLinks == 2

StageNames ==
    << "Awareness Stage", "Interest Stage", "Consideration Stage",
       "Decision Stage", "Fulfillment Stage", "Retention Stage" >>

TypeNames == << "T1", "T2", "T3", "T4", "T5", "T6" >>

\* The typical_url_patterns the taxonomy service may give: "/", "/p",
\* "/p/f" and "/p*".
PatternSet ==
    { << "/" >>, << "/", "p" >>, << "/", "p", "/", "f" >>,
      << "/", "p", "*" >> }

\* The taxonomies of 1..MaxStages stages, each of one type with one
\* pattern.
Taxonomies ==
    UNION { { [g \in 1..n |->
                 [stage |-> StageNames[g],
                  types |-> << [type_name |-> TypeNames[g],
                                typical_url_patterns |-> << pats[g] >>] >>]] :
              pats \in [1..n -> PatternSet] } :
            n \in 1..MaxStages }

Shop == << "shop.example" >>

WwwShopPort == << "WWW.", "Shop.Example", ":443" >>

\* The links a list may hold.
LinkSet ==
    { WaybackUrl("2021", 2, Shop, << "/" >>, << "x" >>),
      WaybackUrl("2021", 2, Shop, << "/", "p", "/", "f" >>, << >>),
      WaybackUrl("2021", 1, Shop, << "/", "p" >>, << "x" >>),
      WaybackUrl("2021", 2, WwwShopPort, << "/", "p" >>, << >>),
      WaybackUrl("2021", 2, << "other.example" >>, << "/", "p" >>, << >>),
      PlainUrl(2, Shop, << >>, << >>),
      PlainUrl(2, WwwShopPort, << "/", "p" >>, << >>),
      PlainUrl(2, << "www.", "shop.example" >>, << "/", "p" >>, << >>),
      PlainUrl(2, << "[", "shop.example" >>, << "/", "p" >>, << >>) }

LinkLists == UNION { [1..n -> LinkSet] : n \in 0..MaxLinks }

\* The home pages: none, the archived home page, and an archived one
\* whose embedded URL has one slash.
HomeSet ==
    { NoHome,
      WaybackUrl("2021", 2, Shop, << "/" >>, << >>),
      WaybackUrl("2021", 1, Shop, << "/" >>, << >>) }

InitClassify ==
    /\ linksDoc = Absent(EmptyDict)
    /\ typesDoc = Absent(NoTypes)
    /\ planDoc = Absent(EmptyDict)
    /\ scenDoc = Absent(EmptyDict)
    /\ pc = "compile"
    /\ i = 1
    /\ year_links_map = EmptyDict
    /\ core_page_types_nested \in Taxonomies
    /\ core_page_types = FlatTypes(core_page_types_nested)
    /\ compiled_patterns = NoPatterns
    /\ yearly_analysis = EmptyDict
    /\ llm_planning_results = EmptyDict
    /\ yearly_scenario_data = EmptyDict
    /\ calls = NoCalls
    /\ failed = NoFailure
    /\ done = NothingDone
    /\ start = [links |-> linksDoc, types |-> typesDoc,
                plan |-> planDoc, scen |-> scenDoc]
    /\ exit = "none"
    /\ hist = [okDisc |-> {}, torn |-> FALSE, taxFailed |-> FALSE]
    /\ faults = 0
    /\ valid_links \in LinkLists
    /\ homepage_url \in HomeSet
    /\ results = NotCalled
    /\ NoStrategy
    /\ NoNormalization
    /\ NoOthers

\* _compile_core_type_patterns(), when it returns.
CompilePatterns ==
    /\ pc = "compile"
    /\ ~CompileRaises(compiled_patterns, core_page_types_nested)
    /\ compiled_patterns' =
           CompileCoreTypePatterns(compiled_patterns, core_page_types_nested)
    /\ pc' = "classify"
    /\ UNCHANGED << docs, i, year_links_map, core_page_types,
                    core_page_types_nested, yearly_analysis,
                    llm_planning_results, yearly_scenario_data, obs,
                    faults, call >>

\* The loop over the matchers popping the matcher it used.
AfterClassify_Consumes(compiled) ==
    [compiled EXCEPT !.list = IF @ = << >> THEN @ ELSE Tail(@)]

\* _compiled_patterns after a call of _classify_candidate_urls: the loop
\* over the matchers only reads the list.
AfterClassify(compiled) == compiled

\* What a call of _classify_candidate_urls ends with.
Classification(links, home, list) ==
    IF ClassifyRaises(links, home)
    THEN [state |-> "raised", list |-> << >>]
    ELSE [state |-> "returned",
          list |-> ClassifyCandidateUrls(links, home, list)]

\* _classify_candidate_urls(year, valid_links, homepage_url), called a
\* first time and then again with the same arguments.
Classify ==
    /\ pc \in {"classify", "classify_again"}
    /\ results' = Classification(valid_links, homepage_url,
                                 compiled_patterns.list)
    /\ compiled_patterns' = AfterClassify(compiled_patterns)
    /\ pc' = IF pc = "classify" THEN "classify_again" ELSE "classified"
    /\ UNCHANGED << docs, i, year_links_map, core_page_types,
                    core_page_types_nested, yearly_analysis,
                    llm_planning_results, yearly_scenario_data, obs,
                    faults, valid_links, homepage_url, strategy,
                    normalization, others >>

NextClassify ==
    \/ CompilePatterns
    \/ Classify

SpecClassify == InitClassify /\ [][NextClassify]_vars

(***************************************************************************)
(* LLMPlanner._compile_core_type_patterns on its own: a planner that holds *)
(* some taxonomy compiles it, and then calls the compiler again.           *)
(***************************************************************************)
\* The number of patterns of a type.
MaxPatterns == 3

\* The lists of typical_url_patterns the parsed answer may hold: the
\* patterns of PatternSet, and null.
PatternLists ==
    UNION { [1..n -> PatternSet \cup {JsonNull}] : n \in 0..MaxPatterns }

\* The keys the taxonomy service may give to a stage: a canonical stage
\* name, or a name of its own.
AnswerKeys == { StageNames[1], "Advocacy Stage" }

\* The parsed answers of the taxonomy service: an object without a key,
\* one whose key holds no list, one whose key holds an empty list, and
\* those of one key with one type.
ParsedAnswers ==
    { << >>,
      << [stage |-> StageNames[1], is_list |-> FALSE, types |-> << >>] >>,
      << [stage |-> StageNames[1], is_list |-> TRUE, types |-> << >>] >> }
    \cup
    { << [stage |-> key, is_list |-> TRUE,
          types |-> << [type_name |-> TypeNames[1],
                        typical_url_patterns |-> pats] >>] >> :
        key \in AnswerKeys, pats \in PatternLists }

\* The taxonomies the planner may hold.
CompileTaxonomies ==
    { ProcessCorePageTypesResponse(parsed) : parsed \in ParsedAnswers }

InitCompile ==
    /\ linksDoc = Absent(EmptyDict)
    /\ typesDoc = Absent(NoTypes)
    /\ planDoc = Absent(EmptyDict)
    /\ scenDoc = Absent(EmptyDict)
    /\ pc = "compile"
    /\ i = 1
    /\ year_links_map = EmptyDict
    /\ core_page_types_nested \in CompileTaxonomies
    /\ core_page_types = FlatTypes(core_page_types_nested)
    /\ compiled_patterns = NoPatterns
    /\ yearly_analysis = EmptyDict
    /\ llm_planning_results = EmptyDict
    /\ yearly_scenario_data = EmptyDict
    /\ calls = NoCalls
    /\ failed = NoFailure
    /\ done = NothingDone
    /\ start = [links |-> linksDoc, types |-> typesDoc,
                plan |-> planDoc, scen |-> scenDoc]
    /\ exit = "none"
    /\ hist = [okDisc |-> {}, torn |-> FALSE, taxFailed |-> FALSE]
    /\ faults = 0
    /\ valid_links = << >>
    /\ homepage_url = NoHome
    /\ results = NotCalled
    /\ NoStrategy
    /\ NoNormalization
    /\ NoOthers

\* _compile_core_type_patterns(), when raw_pat.strip() raises: the
\* exception leaves the compiler before _compiled_patterns is assigned.
CompileFails ==
    /\ pc = "compile"
    /\ CompileRaises(compiled_patterns, core_page_types_nested)
    /\ pc' = "compile_raised"
    /\ UNCHANGED << docs, mem, obs, faults, call >>

\* _compile_core_type_patterns(), called again after it returned.
CompileAgain ==
    /\ pc = "classify"
    /\ compiled_patterns' =
           CompileCoreTypePatterns(compiled_patterns, core_page_types_nested)
    /\ pc' = "compiled_again"
    /\ UNCHANGED << docs, i, year_links_map, core_page_types,
                    core_page_types_nested, yearly_analysis,
                    llm_planning_results, yearly_scenario_data, obs,
                    faults, call >>

NextCompile ==
    \/ CompilePatterns
    \/ CompileFails
    \/ CompileAgain

SpecCompile == InitCompile /\ [][NextCompile]_vars

(***************************************************************************)
(* LLMPlanner._optimize_crawl_strategy on its own: some list of            *)
(* recommended URLs is reconciled with some list of valid URLs.            *)
(***************************************************************************)
\* The length of a list of recommended URLs and of the longest list of
\* valid URLs.
MaxCandidates == 4

MaxValid == 11

\* The k-th page of the site.
Page(k) ==
    WaybackUrl("2021", 2, Shop, << "/", "u" >> \o [j \in 1..k |-> "x"],
               << >>)

\* The URLs the selection service may recommend: three pages, and a URL
\* that is in no list of valid URLs.
CandidateSet == { Page(1), Page(2), Page(3), H }

CandidateLists == UNION { [1..n -> CandidateSet] : n \in 0..MaxCandidates }

\* The lists of valid URLs: none, one page, three pages, MaxValid pages.
ValidLists ==
    { [k \in 1..n |-> Page(k)] : n \in {0, 1, 3, MaxValid} }

InitReconcile ==
    /\ linksDoc = Absent(EmptyDict)
    /\ typesDoc = Absent(NoTypes)
    /\ planDoc = Absent(EmptyDict)
    /\ scenDoc = Absent(EmptyDict)
    /\ pc = "reconcile"
    /\ i = 1
    /\ year_links_map = EmptyDict
    /\ core_page_types = << >>
    /\ core_page_types_nested = << >>
    /\ compiled_patterns = NoPatterns
    /\ yearly_analysis = EmptyDict
    /\ llm_planning_results = EmptyDict
    /\ yearly_scenario_data = EmptyDict
    /\ calls = NoCalls
    /\ failed = NoFailure
    /\ done = NothingDone
    /\ start = [links |-> linksDoc, types |-> typesDoc,
                plan |-> planDoc, scen |-> scenDoc]
    /\ exit = "none"
    /\ hist = [okDisc |-> {}, torn |-> FALSE, taxFailed |-> FALSE]
    /\ faults = 0
    /\ valid_links = << >>
    /\ homepage_url = NoHome
    /\ results = NotCalled
    /\ llm_analysis \in CandidateLists
    /\ valid_content_urls \in ValidLists
    /\ enforce_in_valid \in {"None", "True", "False"}
    /\ analysis_result = EmptyDict
    /\ NoNormalization
    /\ NoOthers

\* _optimize_crawl_strategy(llm_analysis, valid_content_urls, year,
\*                          enforce_in_valid=enforce_in_valid)
Reconcile ==
    /\ pc = "reconcile"
    /\ analysis_result' =
           OptimizeCrawlStrategy(llm_analysis, valid_content_urls, "2021",
                                 Enforce(enforce_in_valid))
    /\ pc' = "reconciled"
    /\ UNCHANGED << docs, mem, obs, faults, valid_links, homepage_url,
                    results, llm_analysis, valid_content_urls,
                    enforce_in_valid, normalization, others >>

NextReconcile == Reconcile

SpecReconcile == InitReconcile /\ [][NextReconcile]_vars

(***************************************************************************)
(* The normalization of a URL by _classify_candidate_urls and by           *)
(* _get_home_host on its own: a URL is normalized, and then the URL        *)
(* rebuilt from the host and the path and query it gave.                   *)
(***************************************************************************)
\* The number of "www." a host name may start with.
MaxWww == 2

\* The host names: shop.example in either case, after 0..MaxWww "www.",
\* with or without a port.
HostSet ==
    { [k \in 1..n |-> "www."] \o base \o port :
        n \in 0..MaxWww,
        base \in { << "shop.example" >>, << "Shop.Example" >> },
        port \in { << >>, << ":443" >> } }

\* The URLs: archived or not, of a host, with no path, the root or /p,
\* with or without a query.
UrlSet ==
    { WaybackUrl("2021", 2, host, path, query) :
        host \in HostSet,
        path \in { << >>, << "/" >>, << "/", "p" >> },
        query \in { << >>, << "x" >> } }
    \cup
    { PlainUrl(2, host, path, query) :
        host \in HostSet,
        path \in { << >>, << "/" >>, << "/", "p" >> },
        query \in { << >>, << "x" >> } }

\* The place of the first "?" of a text, one past its end when it has
\* none.
QueryStart(text) ==
    LET marks == {k \in DOMAIN text : text[k] = "?"}
    IN  IF marks = {} THEN Len(text) + 1
        ELSE CHOOSE k \in marks : \A j \in marks : k <= j

\* The URL "http://" + host + real_part, as urlparse reads it.
Rebuilt(host, real_part) ==
    PlainUrl(2, host,
             SubSeq(real_part, 1, QueryStart(real_part) - 1),
             SubSeq(real_part, QueryStart(real_part) + 1, Len(real_part)))

\* What the program derives from a URL: candidate_host and real_part as
\* the loop of _classify_candidate_urls does, and the home host as
\* _get_home_host does.
Normalization(u) ==
    [candidate_host |-> CandidateHost(u),
     real_part |-> RealPart(u),
     home_host |-> GetHomeHost(u)]

InitNormalize ==
    /\ linksDoc = Absent(EmptyDict)
    /\ typesDoc = Absent(NoTypes)
    /\ planDoc = Absent(EmptyDict)
    /\ scenDoc = Absent(EmptyDict)
    /\ pc = "normalize"
    /\ i = 1
    /\ year_links_map = EmptyDict
    /\ core_page_types = << >>
    /\ core_page_types_nested = << >>
    /\ compiled_patterns = NoPatterns
    /\ yearly_analysis = EmptyDict
    /\ llm_planning_results = EmptyDict
    /\ yearly_scenario_data = EmptyDict
    /\ calls = NoCalls
    /\ failed = NoFailure
    /\ done = NothingDone
    /\ start = [links |-> linksDoc, types |-> typesDoc,
                plan |-> planDoc, scen |-> scenDoc]
    /\ exit = "none"
    /\ hist = [okDisc |-> {}, torn |-> FALSE, taxFailed |-> FALSE]
    /\ faults = 0
    /\ valid_links = << >>
    /\ homepage_url = NoHome
    /\ results = NotCalled
    /\ NoStrategy
    /\ given_url \in UrlSet
    /\ normalized = NotNormalized
    /\ renormalized = NotNormalized
    /\ NoOthers

\* The URL is normalized.
Normalize ==
    /\ pc = "normalize"
    /\ normalized' = Normalization(given_url)
    /\ pc' = "normalized"
    /\ UNCHANGED << docs, mem, obs, faults, valid_links, homepage_url,
                    results, strategy, given_url, renormalized,
                    others >>

\* The URLs rebuilt from what normalization gave are normalized: the one
\* of candidate_host and real_part, and the home page of the home host.
Renormalize ==
    /\ pc = "normalized"
    /\ renormalized' =
           [Normalization(Rebuilt(normalized.candidate_host,
                                  normalized.real_part))
               EXCEPT !.home_host =
                   GetHomeHost(Rebuilt(normalized.home_host, << "/" >>))]
    /\ pc' = "renormalized"
    /\ UNCHANGED << docs, mem, obs, faults, valid_links, homepage_url,
                    results, strategy, given_url, normalized,
                    others >>

NextNormalize ==
    \/ Normalize
    \/ Renormalize

SpecNormalize == InitNormalize /\ [][NextNormalize]_vars

(***************************************************************************)
(* main(): loading the file of timestamped URLs                            *)
(***************************************************************************)
\* The lines of a file are at most this many.
MaxLines == 3

\* A line that is empty once stripped.
Blank == [blank |-> TRUE, url |-> NoHome]

\* An archive URL without the fourteen digits of a timestamp.
NoStamp == WaybackUrl("", 2, << "shop.example" >>, << "/" >>, << >>)

\* The lines a file may hold: blank, a URL that is no archive URL, an
\* archive URL without a timestamp, and the anchors of 2016 and 2015.
LineSet == { Blank, Line(H), Line(NoStamp), Line(A2), Line(A1) }

\* The input file: missing, there but unreadable, or some lines.
InputFiles ==
    { [st |-> "missing", lines |-> << >>],
      [st |-> "unreadable", lines |-> << >>] }
    \cup
    { [st |-> "ok", lines |-> ls] :
        ls \in UNION { [1..n -> LineSet] : n \in 0..MaxLines } }

\* "if not line or not line.startswith(...): continue" and "if not m:
\* continue": the lines that give a (year, url) pair.
IsTimestamped(line) ==
    /\ ~line.blank
    /\ line.url.wayback
    /\ line.url.ts # ""

\* sort(key=year): the sort is stable, so the pairs of a year keep the
\* order they had.
SortByYear(pairs) ==
    Concat([y \in DOMAIN YearOrder |->
               SelectSeq(pairs, LAMBDA pair : pair.year = YearOrder[y])])

\* The pairs without those whose URL was seen before.
DedupUrls(pairs) ==
    LET first(k) == \A j \in 1..(k - 1) : pairs[j].url # pairs[k].url
        F[k \in 0..Len(pairs)] ==
            IF k = 0 THEN << >>
            ELSE IF first(k) THEN Append(F[k - 1], pairs[k]) ELSE F[k - 1]
    IN  F[Len(pairs)]

\* The try block of load_historical_urls_from_file, when the file opens.
HistoricalUrlsOf(file) ==
    LET kept == SelectSeq(file.lines, IsTimestamped)
        raw  == [k \in DOMAIN kept |->
                    [year |-> kept[k].url.ts, url |-> kept[k].url]]
    IN  DedupUrls(SortByYear(raw))

\* open() or readlines() raises: the handler logs, and "return
\* historical_urls" then reads a name that only the try block binds
\* (UnboundLocalError).
LoadRaises(file) == file.st # "ok"

InitLoad ==
    /\ linksDoc = Absent(EmptyDict)
    /\ typesDoc = Absent(NoTypes)
    /\ planDoc = Absent(EmptyDict)
    /\ scenDoc = Absent(EmptyDict)
    /\ pc = "load"
    /\ i = 1
    /\ year_links_map = EmptyDict
    /\ core_page_types = << >>
    /\ core_page_types_nested = << >>
    /\ compiled_patterns = NoPatterns
    /\ yearly_analysis = EmptyDict
    /\ llm_planning_results = EmptyDict
    /\ yearly_scenario_data = EmptyDict
    /\ calls = NoCalls
    /\ failed = NoFailure
    /\ done = NothingDone
    /\ start = [links |-> linksDoc, types |-> typesDoc,
                plan |-> planDoc, scen |-> scenDoc]
    /\ exit = "none"
    /\ hist = [okDisc |-> {}, torn |-> FALSE, taxFailed |-> FALSE]
    /\ faults = 0
    /\ valid_links = << >>
    /\ homepage_url = NoHome
    /\ results = NotCalled
    /\ NoStrategy
    /\ NoNormalization
    /\ input_file \in InputFiles
    /\ historical_urls = [state |-> "none", list |-> << >>]
    /\ generated = NotGenerated
    /\ writers = << >>
    /\ written = {}

\* load_historical_urls_from_file returns the pairs of the file.
LoadHistoricalUrls ==
    /\ pc = "load"
    /\ ~LoadRaises(input_file)
    /\ historical_urls' =
           [state |-> "returned", list |-> HistoricalUrlsOf(input_file)]
    /\ pc' = "loaded"
    /\ UNCHANGED << docs, mem, obs, faults, valid_links, homepage_url,
                    results, strategy, normalization, input_file,
                    generated, writers, written >>

\* load_historical_urls_from_file raises; main() calls it outside its try
\* block, so the exception leaves main().
LoadHistoricalUrlsFails ==
    /\ pc = "load"
    /\ LoadRaises(input_file)
    /\ historical_urls' = [state |-> "raised", list |-> << >>]
    /\ EndRun("exception")
    /\ UNCHANGED << docs, calls, failed, done, start, hist, faults,
                    valid_links, homepage_url, results, strategy,
                    normalization, input_file, generated, writers,
                    written >>

\* "if not historical_urls: return"
MainNoUrls ==
    /\ pc = "loaded"
    /\ historical_urls.list = << >>
    /\ EndRun("normal")
    /\ UNCHANGED << docs, calls, failed, done, start, hist, faults,
                    valid_links, homepage_url, results, strategy,
                    normalization, others >>

\* main() goes on to the stages: process_urls_for_company loads the
\* existing links.
MainStartsStages ==
    /\ pc = "loaded"
    /\ historical_urls.list # << >>
    /\ pc' = "links_loop"
    /\ i' = 1
    /\ year_links_map' = LoadDict(linksDoc)
    /\ UNCHANGED << docs, core_page_types, core_page_types_nested,
                    compiled_patterns, yearly_analysis,
                    llm_planning_results, yearly_scenario_data, obs,
                    faults, call >>

NextLoad ==
    \/ LoadHistoricalUrls
    \/ LoadHistoricalUrlsFails
    \/ MainNoUrls
    \/ MainStartsStages

SpecLoad == InitLoad /\ [][NextLoad]_vars

(***************************************************************************)
(* The taxonomy, generated and persisted by one run and loaded by a later  *)
(* one                                                                     *)
(***************************************************************************)
\* The types of a flat answer are at most this many.
MaxTypes == 2

\* What the related_journey_stage of a type of a flat answer may be: a
\* stage name, null, or the text "null".
FlatStages == { StageNames[1], PyNone, "null" }

\* The types of a flat answer: with a related_journey_stage or without.
FlatItems ==
    { [type_name |-> TypeNames[1], typical_url_patterns |-> << pat >>,
       related_journey_stage |-> stage] :
        stage \in FlatStages, pat \in { << "/" >>, << "/", "p" >> } }
    \cup
    { [type_name |-> TypeNames[1], typical_url_patterns |-> << pat >>] :
        pat \in { << "/" >>, << "/", "p" >> } }

\* The parsed answers of the flat format: {"core_page_types": [...]}.
FlatAnswers == UNION { [1..n -> FlatItems] : n \in 0..MaxTypes }

\* The taxonomies a generating run may hold once the answer is processed.
RoundTripTaxonomies ==
    { NestFlatList(flat_list) : flat_list \in FlatAnswers }
    \cup CompileTaxonomies \cup Taxonomies

\* What _compile_core_type_patterns ends with in a new planner.
Compiled(nested) ==
    IF CompileRaises(NoPatterns, nested)
    THEN [state |-> "raised", list |-> << >>]
    ELSE [state |-> "compiled",
          list |-> CompileCoreTypePatterns(NoPatterns, nested).list]

\* What the classification of a period's links gives after it: nothing
\* when the compiler raised (the exception leaves generate_llm_planning).
ClassifiedAfter(compiled, links) ==
    IF compiled.state = "raised" THEN NotCalled
    ELSE Classification(links, NoHome, compiled.list)

InitRoundTrip ==
    /\ linksDoc = Absent(EmptyDict)
    /\ typesDoc = Absent(NoTypes)
    /\ planDoc = Absent(EmptyDict)
    /\ scenDoc = Absent(EmptyDict)
    /\ pc = "types_generated"
    /\ i = 1
    /\ year_links_map = EmptyDict
    /\ core_page_types_nested \in RoundTripTaxonomies
    /\ core_page_types = FlatTypes(core_page_types_nested)
    /\ compiled_patterns = NoPatterns
    /\ yearly_analysis = EmptyDict
    /\ llm_planning_results = EmptyDict
    /\ yearly_scenario_data = EmptyDict
    /\ calls = NoCalls
    /\ failed = NoFailure
    /\ done = NothingDone
    /\ start = [links |-> linksDoc, types |-> typesDoc,
                plan |-> planDoc, scen |-> scenDoc]
    /\ exit = "none"
    /\ hist = [okDisc |-> {}, torn |-> FALSE, taxFailed |-> FALSE]
    /\ faults = 0
    /\ valid_links = << A1, P >>
    /\ homepage_url = NoHome
    /\ results = NotCalled
    /\ NoStrategy
    /\ NoNormalization
    /\ NoOthers

\* The generating run, from the processed answer on: the taxonomy is
\* written to its document, compiled, and the links are classified.
GeneratingRun ==
    /\ pc = "types_generated"
    /\ typesDoc' = Whole(TypesValue(core_page_types_nested))
    /\ LET compiled == Compiled(core_page_types_nested)
       IN  /\ compiled_patterns' =
                  IF compiled.state = "raised" THEN NoPatterns
                  ELSE CompileCoreTypePatterns(NoPatterns,
                                               core_page_types_nested)
           /\ results' = ClassifiedAfter(compiled, valid_links)
           /\ generated' = [nested |-> core_page_types_nested,
                            compiled |-> compiled,
                            results |-> ClassifiedAfter(compiled, valid_links)]
    /\ pc' = "generated"
    /\ UNCHANGED << linksDoc, planDoc, scenDoc, i, year_links_map,
                    core_page_types, core_page_types_nested,
                    yearly_analysis, llm_planning_results,
                    yearly_scenario_data, obs, faults, valid_links,
                    homepage_url, strategy, normalization, loading,
                    writers, written >>

\* A later run, with a new planner: the document exists, the taxonomy is
\* loaded from it and compiled, and the links are classified.
ResumingRun ==
    /\ pc = "generated"
    /\ LET nested   == LoadedNested(typesDoc, << >>)
           compiled == Compiled(nested)
       IN  /\ core_page_types_nested' = nested
           /\ core_page_types' = LoadedTypes(typesDoc, << >>)
           /\ compiled_patterns' =
                  IF compiled.state = "raised" THEN NoPatterns
                  ELSE CompileCoreTypePatterns(NoPatterns, nested)
           /\ results' = ClassifiedAfter(compiled, valid_links)
    /\ pc' = "resumed"
    /\ UNCHANGED << docs, i, year_links_map, yearly_analysis,
                    llm_planning_results, yearly_scenario_data, obs,
                    faults, valid_links, homepage_url, strategy,
                    normalization, others >>

NextRoundTrip ==
    \/ GeneratingRun
    \/ ResumingRun

SpecRoundTrip == InitRoundTrip /\ [][NextRoundTrip]_vars

(***************************************************************************)
(* Two runs of generate_llm_planning for the same company at the same time *)
(***************************************************************************)
\* The runs.
MaxRuns == 2

Runs == 1..MaxRuns

\* The links of the periods, as both runs got them: the anchor of 2015
\* and the page it links to, and that page for 2016.
LinksOfPeriods ==
    [y \in Years |-> IF y = "2015" THEN << A1, P >> ELSE << P >>]

\* The planning result of a period: its links classified under the
\* taxonomy of the good answer, the service recommending them all.
PlanningOf(year) ==
    LET list == CompileCoreTypePatterns(NoPatterns, TaxGood).list
        classified == ClassifyCandidateUrls(LinksOfPeriods[year], NoHome,
                                            list)
    IN  FinalAnalysis(year, LinksOfPeriods[year], list,
                      ClassifiedUrlList(classified))

\* The planning documents that earlier runs may have left: none, or the
\* results of some of the periods.
PlanningDocs ==
    { Absent(EmptyDict) } \cup
    { Whole([y \in done_years |-> PlanningOf(y)]) :
        done_years \in SUBSET Years }

InitConcurrent ==
    /\ linksDoc = Whole(LinksOfPeriods)
    /\ typesDoc = Whole(TypesValue(TaxGood))
    /\ planDoc \in PlanningDocs
    /\ scenDoc = Absent(EmptyDict)
    /\ pc = "planning"
    /\ i = 1
    /\ year_links_map = LinksOfPeriods
    /\ core_page_types_nested = TaxGood
    /\ core_page_types = FlatTypes(TaxGood)
    /\ compiled_patterns = CompileCoreTypePatterns(NoPatterns, TaxGood)
    /\ yearly_analysis = EmptyDict
    /\ llm_planning_results = EmptyDict
    /\ yearly_scenario_data = EmptyDict
    /\ calls = NoCalls
    /\ failed = NoFailure
    /\ done = NothingDone
    /\ start = [links |-> linksDoc, types |-> typesDoc,
                plan |-> planDoc, scen |-> scenDoc]
    /\ exit = "none"
    /\ hist = [okDisc |-> {}, torn |-> FALSE, taxFailed |-> FALSE]
    /\ faults = 0
    /\ valid_links = << >>
    /\ homepage_url = NoHome
    /\ results = NotCalled
    /\ NoStrategy
    /\ NoNormalization
    /\ InputLoaded
    /\ generated = NotGenerated
    /\ writers = [r \in Runs |->
                     [at |-> "start", i |-> 1,
                      yearly_analysis |-> EmptyDict]]
    /\ written = DOMAIN LoadDict(planDoc)

\* What the steps of the runs leave alone.
UnchangedByWriters ==
    UNCHANGED << linksDoc, typesDoc, scenDoc, pc, mem, obs, faults,
                 valid_links, homepage_url, results, strategy,
                 normalization, loading, generated >>

\* The run r loads the existing results.
WriterLoad(r) ==
    /\ writers[r].at = "start"
    /\ writers' = [writers EXCEPT ![r] =
                      [at |-> "loop", i |-> 1,
                       yearly_analysis |-> LoadDict(planDoc)]]
    /\ UNCHANGED << planDoc, written >>
    /\ UnchangedByWriters

\* "if year in yearly_analysis: continue"
WriterSkip(r) ==
    /\ writers[r].at = "loop"
    /\ writers[r].i <= Len(Keys(year_links_map))
    /\ SkipPlan(writers[r].yearly_analysis,
                Keys(year_links_map)[writers[r].i])
    /\ writers' = [writers EXCEPT ![r].i = @ + 1]
    /\ UNCHANGED << planDoc, written >>
    /\ UnchangedByWriters

\* The run r plans the period, stores the result in its yearly_analysis
\* and _write_planning_file opens the document, which truncates it.
WriterPlan(r) ==
    /\ writers[r].at = "loop"
    /\ writers[r].i <= Len(Keys(year_links_map))
    /\ LET year == Keys(year_links_map)[writers[r].i]
       IN  /\ ~SkipPlan(writers[r].yearly_analysis, year)
           /\ writers' = [writers EXCEPT
                             ![r].at = "dump",
                             ![r].yearly_analysis =
                                 Put(@, year, PlanningOf(year))]
    /\ planDoc' = Torn(EmptyDict)
    /\ UNCHANGED written
    /\ UnchangedByWriters

\* What the document holds once the run r closed it.  The run wrote its
\* text from the start of the file; when another run wrote the file after
\* r had truncated it, what is beyond r's text is left of the other's, and
\* the document is r's or a torn one.
DumpOutcomes(r) ==
    { Whole(writers[r].yearly_analysis) }
    \cup (IF Loadable(planDoc) THEN { Torn(EmptyDict) } ELSE { })

\* json.dump of the run r's yearly_analysis completes, for the period.
WriterDump(r) ==
    /\ writers[r].at = "dump"
    /\ \E doc \in DumpOutcomes(r) :
         /\ planDoc' = doc
         /\ written' = IF Loadable(doc)
                       THEN written \cup DOMAIN writers[r].yearly_analysis
                       ELSE written
    /\ writers' = [writers EXCEPT ![r].at = "loop", ![r].i = @ + 1]
    /\ UnchangedByWriters

\* The loop of the run r is over: the document is opened for the final
\* write.
WriterFinalOpen(r) ==
    /\ writers[r].at = "loop"
    /\ writers[r].i > Len(Keys(year_links_map))
    /\ writers' = [writers EXCEPT ![r].at = "final_dump"]
    /\ planDoc' = Torn(EmptyDict)
    /\ UNCHANGED written
    /\ UnchangedByWriters

\* The final write of the run r completes.
WriterFinalDump(r) ==
    /\ writers[r].at = "final_dump"
    /\ \E doc \in DumpOutcomes(r) :
         /\ planDoc' = doc
         /\ written' = IF Loadable(doc)
                       THEN written \cup DOMAIN writers[r].yearly_analysis
                       ELSE written
    /\ writers' = [writers EXCEPT ![r].at = "done"]
    /\ UnchangedByWriters

NextConcurrent ==
    \/ \E r \in Runs : WriterLoad(r)
    \/ \E r \in Runs : WriterSkip(r)
    \/ \E r \in Runs : WriterPlan(r)
    \/ \E r \in Runs : WriterDump(r)
    \/ \E r \in Runs : WriterFinalOpen(r)
    \/ \E r \in Runs : WriterFinalDump(r)

SpecConcurrent == InitConcurrent /\ [][NextConcurrent]_vars

(***************************************************************************)
(* Runs without end: when no run is under way one is started, and a run    *)
(* under way goes on, main() being sequential code.  Some step of Next is  *)
(* possible in every state, so the second condition is WF_vars(Next),      *)
(* written without ENABLED.                                                *)
(***************************************************************************)
SpecLive ==
    Init /\ [][Next]_vars /\ WF_vars(StartRun) /\ []<><<TRUE>>_vars

(***************************************************************************)
(* Properties                                                              *)
(***************************************************************************)
\* The period y has an entry in the persisted dictionary document.
Persisted(doc, y) == Loadable(doc) /\ y \in DOMAIN doc.val

\* The taxonomy and every period completed every stage, as persisted.
AllComplete(l, t, p, s) ==
    /\ TypesLoadOk(t)
    /\ \A y \in Years :
         /\ Persisted(l, y) /\ l.val[y] # << >>
         /\ Persisted(p, y)
         /\ Persisted(s, y) /\ ~s.val[y].error

\* The current (or, when idle, the last) run found everything complete.
StartedComplete == AllComplete(start.links, start.types, start.plan, start.scen)

RunEndedNormally == pc = "idle" /\ exit = "normal"

\* C1 (resume idempotence): a run that finds the taxonomy and every stage
\* of every period persisted calls neither discovery nor the taxonomy
\* service nor selection nor the content fetch, and when it has ended
\* normally with no failed write, the links, planning and scenario
\* documents hold for every period the entry they held when it started,
\* the taxonomy document being untouched.
C1_ResumeIdempotence ==
    StartedComplete =>
        /\ calls = NoCalls
        /\ (RunEndedNormally /\ ~failed.io) =>
              /\ linksDoc = start.links
              /\ typesDoc = start.types
              /\ planDoc = start.plan
              /\ scenDoc = start.scen

C1_Witness ==
    /\ StartedComplete
    /\ RunEndedNormally
    /\ ~failed.io
    /\ scenDoc = start.scen

\* C2 (interruption safety), as stated: when every interruption so far
\* fell between two units of work (no write was torn), a run does not
\* call discovery for a period whose discovery succeeded in an earlier
\* run.
C2_NoRepeatedDiscovery ==
    ~hist.torn => calls.disc \cap hist.okDisc = {}

\* C3 (atomic save), as stated: a run skips no unit of work on the
\* strength of a torn document: having found the links (planning,
\* scenario) document torn it recomputes every period of that stage, and
\* it goes past the taxonomy step without calling the service only if the
\* taxonomy document is whole.
C3_TornNeverPresent ==
    /\ (start.links.st = "partial" /\ pc = "links_dump")
           => calls.disc = Years
    /\ (pc = "plan_start" /\ ~calls.tax) => Loadable(typesDoc)
    /\ (start.plan.st = "partial" /\ pc = "plan_done")
           => calls.sel = DOMAIN year_links_map
    /\ (start.scen.st = "partial" /\ pc = "scen_final_dump")
           => \A y \in DOMAIN llm_planning_results :
                  llm_planning_results[y].recommended_crawl_pages # << >>
                      => y \in calls.fetch

\* C4 (a failed discovery leaves no trace), as stated: once the links
\* are saved, a period whose discovery failed in this run has no links
\* persisted, so that the next run discovers it again.
C4_FailedDiscoveryLeavesNoTrace ==
    pc = "types" =>
        \A y \in failed.disc :
            ~Persisted(linksDoc, y) \/ ~SkipLinks(linksDoc.val, y)

C6_ScenFailureLeavesNoEntry ==
    \A y \in failed.scen : ~Persisted(scenDoc, y)

\* C7 (a content-fetch failure aborts the period), as stated: a period
\* for which the fetch of every selected URL failed in this run has no
\* entry in the scenario document.
C7_FetchFailureNotPersisted ==
    \A y \in failed.fetch : ~Persisted(scenDoc, y)

\* C8 (a persistence failure is surfaced), as stated: after the write of
\* a period's planning result failed, either the exception has ended the
\* run, or the period is held as not completed (it has no result in
\* yearly_analysis and none in the document).
C8_PlanWriteFailureSurfaced ==
    \A y \in failed.planWrite :
        \/ pc = "idle" /\ exit = "exception"
        \/ pc # "idle" /\ y \notin DOMAIN yearly_analysis
                       /\ ~Persisted(planDoc, y)

\* C9 (taxonomy before classification), as stated: a run classifies a
\* period only after its taxonomy step succeeded (the taxonomy was
\* generated, or loaded from its document), and during the periods' loop
\* the matcher list is the compilation of that taxonomy.
C9_TaxonomyBeforeClassification ==
    /\ calls.sel # {} => done.tax \in {"generated", "loaded"}
    /\ pc \in {"plan_loop", "plan_dump"} =>
           /\ ~compiled_patterns.none
           /\ compiled_patterns.list =
                  SortDesc(Matchers(core_page_types_nested))

\* C10 (a failed taxonomy step blocks classification): when the taxonomy
\* service failed in a run, no taxonomy document exists and the run
\* classified and selected nothing; and a run that follows one whose
\* taxonomy step failed, once past that step, has called the service
\* again.
C10_FailedTaxonomyBlocks ==
    /\ failed.tax =>
           /\ ~Exists(typesDoc)
           /\ calls.sel = {}
           /\ done.plan = {}
    /\ (hist.taxFailed /\ pc \notin {"idle", "links_loop", "links_dump", "types"})
           => calls.tax

C10_Witness ==
    /\ hist.taxFailed
    /\ calls.tax
    /\ done.tax = "generated"
    /\ pc = "plan_loop"
    /\ calls.sel # {}

\* C11 (every run terminates normally), as stated: no run ends with an
\* exception leaving main(), whichever periods fail and whether or not
\* the taxonomy step fails.
C11_RunTerminatesNormally == exit # "exception"

\* C12 (per-period stage order), as stated for the documents between two
\* runs: a period has a planning entry only if it has a links entry, and
\* a scenario entry only if it has a planning entry.
C12_StageOrder ==
    pc = "idle" =>
        \A y \in Years :
            /\ Persisted(planDoc, y) => Persisted(linksDoc, y)
            /\ Persisted(scenDoc, y) => Persisted(planDoc, y)

(***************************************************************************)
(* Properties of the compiler and of the classifier                        *)
(***************************************************************************)
\* The matcher compiled from the pattern of the g-th stage's type: the
\* taxonomies give each stage one type with one pattern.
PatternOf(nested, g) == nested[g].types[1].typical_url_patterns[1]

\* The place in the taxonomy of the matcher that owns stage and type.
EncounterIndex(nested, stage) ==
    CHOOSE g \in DOMAIN nested : nested[g].stage = stage

\* The links of the call whose location is derived without an exception.
Parsable == {k \in DOMAIN valid_links :
                ~CandidateLocation(valid_links[k]).raises}

Returned == pc \in {"classify_again", "classified"} /\ results.state = "returned"

\* C13 (specificity tie-break): once compiled, the matcher list holds the
\* matchers of the taxonomy by pattern length descending, those of equal
\* length in taxonomy encounter order; and every classified link has the
\* stage and type of the longest pattern that matches its path and query,
\* the first in the taxonomy among the longest.
C13_SpecificityTieBreak ==
    LET nested == core_page_types_nested
        list   == compiled_patterns.list
        At(k)  == EncounterIndex(nested, list[k].stage)
    IN  /\ ~compiled_patterns.none =>
              /\ Len(list) = Len(nested)
              /\ \A k \in DOMAIN list :
                     list[k].specificity = Len(PatternOf(nested, At(k)))
              /\ \A j, k \in DOMAIN list :
                     j < k =>
                        \/ list[j].specificity > list[k].specificity
                        \/ /\ list[j].specificity = list[k].specificity
                           /\ At(j) < At(k)
        /\ Returned =>
              \A n \in DOMAIN results.list :
                 LET r    == results.list[n]
                     mine == EncounterIndex(nested, r.customer_journey_stage)
                     text == RealPart(r.url)
                 IN  /\ r.type_name = nested[mine].types[1].type_name
                     /\ \A g \in DOMAIN nested :
                          RegexMatch(CompileRegex(PatternOf(nested, g)), text)
                            => \/ Len(PatternOf(nested, mine))
                                      > Len(PatternOf(nested, g))
                               \/ /\ Len(PatternOf(nested, mine))
                                        = Len(PatternOf(nested, g))
                                  /\ mine <= g

\* A link matched by a short pattern met first and by a longer one met
\* second got the type of the second; and two patterns of the same
\* length were met.
C13_Witness ==
    /\ Returned
    /\ Len(core_page_types_nested) = 2
    /\ PatternOf(core_page_types_nested, 1) = << "/", "p" >>
    /\ PatternOf(core_page_types_nested, 2) = << "/", "p", "/", "f" >>
    /\ \E n \in DOMAIN results.list :
         /\ RealPart(results.list[n].url) = << "/", "p", "/", "f" >>
         /\ results.list[n].type_name = TypeNames[2]

\* Wildcard matching as the claim words it: "*" stands for any sequence,
\* every other character for itself, from the start of the text.
RECURSIVE GlobPrefix(_, _)
GlobPrefix(pat, text) ==
    IF pat = << >> THEN TRUE
    ELSE IF Head(pat) = "*"
         THEN GlobPrefix(Tail(pat), text)
              \/ (text # << >> /\ GlobPrefix(pat, Tail(text)))
         ELSE /\ text # << >>
              /\ Head(pat) = Head(text)
              /\ GlobPrefix(Tail(pat), Tail(text))

\* C14 (wildcard and prefix semantics), as stated: every compiled matcher
\* of a non-root pattern matches a link's path and query exactly when the
\* pattern, "*" read as any sequence, is a prefix of it.
C14_WildcardSemantics ==
    ~compiled_patterns.none =>
        \A m \in DOMAIN compiled_patterns.list :
            LET pat == PatternOf(core_page_types_nested,
                           EncounterIndex(core_page_types_nested,
                                          compiled_patterns.list[m].stage))
            IN  pat # << "/" >> =>
                  \A k \in Parsable :
                      RegexMatch(compiled_patterns.list[m].regex,
                                 RealPart(valid_links[k]))
                          <=> GlobPrefix(pat, RealPart(valid_links[k]))

\* C15 (root exactness): the matcher compiled from the pattern "/"
\* matches a link exactly when its path and query is "/", and a link
\* classified when "/" is the only pattern has that very path and query.
C15_RootExactness ==
    ~compiled_patterns.none =>
        /\ \A m \in DOMAIN compiled_patterns.list :
              PatternOf(core_page_types_nested,
                        EncounterIndex(core_page_types_nested,
                                       compiled_patterns.list[m].stage))
                  = << "/" >>
              => \A k \in Parsable :
                     RegexMatch(compiled_patterns.list[m].regex,
                                RealPart(valid_links[k]))
                         <=> RealPart(valid_links[k]) = << "/" >>
        /\ (Returned /\ \A g \in DOMAIN core_page_types_nested :
                            PatternOf(core_page_types_nested, g) = << "/" >>)
              => \A n \in DOMAIN results.list :
                     RealPart(results.list[n].url) = << "/" >>

\* "/" is the only pattern; of a root link, one with a query and one with
\* a longer path, only the first was classified.
C15_Witness ==
    /\ Returned
    /\ Len(core_page_types_nested) = 1
    /\ PatternOf(core_page_types_nested, 1) = << "/" >>
    /\ Len(valid_links) = 2
    /\ RealPart(valid_links[1]) = << "/" >>
    /\ RealPart(valid_links[2]) \in { << "/", "?", "x" >>,
                                      << "/", "p", "/", "f" >> }
    /\ Len(results.list) = 1
    /\ results.list[1].url = valid_links[1]

EffectiveHost(url) == StripWww(StripPort(Lower(url.host)))

Classified(url) == \E n \in DOMAIN results.list : results.list[n].url = url

\* C17 (cross-domain exclusion), as stated: a link that a matcher matches
\* is dropped exactly when home_host is non-empty and the link's
\* effective host is non-empty and is neither home_host nor "www." +
\* home_host.
C17_CrossDomainExclusion ==
    Returned =>
        \A k \in DOMAIN valid_links :
            LET url  == valid_links[k]
                home == HomeHost(homepage_url)
                host == EffectiveHost(url)
            IN  FirstMatch(compiled_patterns.list, RealPart(url)) # 0 =>
                   (~Classified(url) <=>
                        /\ home # << >>
                        /\ host # << >>
                        /\ host # home
                        /\ host # << "www." >> \o home)

\* C18 (archive unwrap with scheme repair), as stated: a wrapped link
\* whose embedded URL has one slash after the scheme gets the host and
\* the path and query of the same URL written with two.
C18_SchemeRepair ==
    pc # "compile" =>
        \A k \in DOMAIN valid_links :
            LET url == valid_links[k]
                two == [url EXCEPT !.slashes = 2]
            IN  (url.wayback /\ url.slashes = 1) =>
                   /\ CandidateHost(url) = CandidateHost(two)
                   /\ RealPart(url) = RealPart(two)

\* C19 (host canonicalization), as stated: the host derived for a link
\* written with "//", wrapped or not, and the home host derived from such
\* a home page, are the written host lowercased, without port and
\* without a leading "www.".
C19_HostCanonicalization ==
    pc # "compile" =>
        /\ \A k \in Parsable :
              valid_links[k].slashes = 2 =>
                 CandidateHost(valid_links[k])
                     = EffectiveHost(valid_links[k])
        /\ (homepage_url # NoHome /\ homepage_url.slashes = 2) =>
              GetHomeHost(homepage_url) = EffectiveHost(homepage_url)

\* C20 (malformed URLs are never fatal), as stated: no call of
\* _classify_candidate_urls ends with an exception.
C20_MalformedNeverFatal == results.state # "raised"

\* The anchor URL of a period.
AnchorOf(y) ==
    HistoricalUrls[CHOOSE k \in DOMAIN HistoricalUrls :
                       HistoricalUrls[k].year = y].url

\* C25 (link set invariant), as stated: the list persisted for a period
\* whose discovery succeeded in the run holds
\* the meaningful links of the anchor page, each once, in the order in
\* which discovery met them.
C25_LinksInDiscoveryOrder ==
    \A y \in done.links :
        (Persisted(linksDoc, y) /\ linksDoc.val[y] # << >>) =>
            linksDoc.val[y] =
                FilterValidLinks(Dedup(Encountered(AnchorOf(y))))

\* The positions of the recommended URLs that the call keeps: all of them,
\* or with enforcement those whose URL is a valid URL.
KeptPositions ==
    {k \in DOMAIN llm_analysis :
        Enforce(enforce_in_valid) =>
            InSeq(llm_analysis[k], valid_content_urls)}

\* The first kept position that holds the URL u.
FirstKept(u) ==
    CHOOSE k \in KeptPositions :
        /\ llm_analysis[k] = u
        /\ \A j \in KeptPositions : llm_analysis[j] = u => k <= j

\* C22 (dedup order preservation): when some recommended URL is kept, the
\* final list holds each kept URL exactly once, in the order of the URLs'
\* first occurrence in the recommended list.
C22_DedupOrderPreservation ==
    (pc = "reconciled" /\ KeptPositions # {}) =>
        LET final == analysis_result.recommended_crawl_pages
        IN  /\ Range(final) = {llm_analysis[k] : k \in KeptPositions}
            /\ \A j, k \in DOMAIN final :
                   j < k => /\ final[j] # final[k]
                            /\ FirstKept(final[j]) < FirstKept(final[k])

\* [u3, u1, u3, u2] without enforcement has given [u3, u1, u2].
C22_Witness ==
    /\ pc = "reconciled"
    /\ llm_analysis = << Page(3), Page(1), Page(3), Page(2) >>
    /\ valid_content_urls = << Page(1), Page(2), Page(3) >>
    /\ enforce_in_valid = "False"
    /\ analysis_result.recommended_crawl_pages =
           << Page(3), Page(1), Page(2) >>

\* The first n entries of a list, all of them if it has fewer.
FirstOf(s, n) == [k \in 1..Min(n, Len(s)) |-> s[k]]

\* The fields of the result that hold a Boolean, and the name of a field
\* that would say that the fallback was used.
FlagNames ==
    {"using_real_llm", "enforce_recommended_in_valid_list", "fallback_used"}

\* C23 (selection fallback), as stated: when no recommended URL is kept
\* the final list is the first ten valid URLs, and in every case a
\* Boolean field of the result says whether the fallback was used.
C23_SelectionFallback ==
    pc = "reconciled" =>
        /\ KeptPositions = {} =>
               analysis_result.recommended_crawl_pages =
                   FirstOf(valid_content_urls, FallbackCount)
        /\ \E key \in FlagNames \cap DOMAIN analysis_result :
               analysis_result[key] = (KeptPositions = {})

\* C24 (membership enforcement): with enforcement every URL of the final
\* list is a valid URL, and the overlap count is the number of distinct
\* kept URLs that are valid URLs.
C24_MembershipEnforcement ==
    pc = "reconciled" =>
        /\ Enforce(enforce_in_valid) =>
               \A u \in Range(analysis_result.recommended_crawl_pages) :
                   InSeq(u, valid_content_urls)
        /\ analysis_result.recommended_in_valid_overlap =
               Cardinality({u \in {llm_analysis[k] : k \in KeptPositions} :
                               InSeq(u, valid_content_urls)})

\* With enforcement, a recommended URL that is not valid has been dropped
\* and a valid one kept.
C24_Witness ==
    /\ pc = "reconciled"
    /\ enforce_in_valid = "True"
    /\ llm_analysis = << H, Page(2), H, Page(1) >>
    /\ valid_content_urls = << Page(1), Page(2), Page(3) >>
    /\ analysis_result.recommended_crawl_pages = << Page(2), Page(1) >>
    /\ analysis_result.recommended_in_valid_overlap = 2

\* The matcher list has a matcher for the path and query of a URL.
SomeMatch(url) ==
    \E j \in DOMAIN compiled_patterns.list :
        RegexMatch(compiled_patterns.list[j].regex, RealPart(url))

\* C26 (classification output shape): a call whose URLs can all be parsed
\* returns; the entries of what it returns are entries for links of the
\* input at increasing positions, each with the stage and the type of the
\* first matcher of the list that matches the link; and a link that no
\* matcher matches has no entry.
C26_ClassificationShape ==
    (/\ pc \in {"classify_again", "classified"}
     /\ Parsable = DOMAIN valid_links
     /\ ~(homepage_url # NoHome /\ GetHomeHostRaises(homepage_url))) =>
        /\ results.state = "returned"
        /\ \E at \in [DOMAIN results.list -> DOMAIN valid_links] :
             LET list == compiled_patterns.list
             IN  /\ \A m, n \in DOMAIN at : m < n => at[m] < at[n]
                 /\ \A n \in DOMAIN at :
                      LET entry == results.list[n]
                          text  == RealPart(valid_links[at[n]])
                      IN  /\ entry.url = valid_links[at[n]]
                          /\ \E k \in DOMAIN list :
                               /\ RegexMatch(list[k].regex, text)
                               /\ \A j \in 1..(k - 1) :
                                      ~RegexMatch(list[j].regex, text)
                               /\ entry.customer_journey_stage = list[k].stage
                               /\ entry.type_name = list[k].type_name
                 /\ \A k \in DOMAIN valid_links :
                      ~SomeMatch(valid_links[k]) => k \notin Range(at)

\* A call with a first link that no matcher matches and a second link
\* that both matchers match has returned one entry, for the second link
\* with the type of the first matcher.
C26_Witness ==
    /\ Returned
    /\ Len(valid_links) = 2
    /\ Len(compiled_patterns.list) = 2
    /\ ~SomeMatch(valid_links[1])
    /\ \A j \in 1..2 : RegexMatch(compiled_patterns.list[j].regex,
                                  RealPart(valid_links[2]))
    /\ Len(results.list) = 1
    /\ results.list[1].url = valid_links[2]
    /\ results.list[1].type_name = compiled_patterns.list[1].type_name

\* C21 (normalization idempotence), as stated: the URL rebuilt from the
\* host and the path and query that normalization gave is normalized to
\* the same host and the same path and query, and the home host of the
\* home page rebuilt from a home host is that home host.
C21_NormalizationIdempotent ==
    pc = "renormalized" => renormalized = normalized

\* C27 (compilation is idempotent): a call of the compiler after the call
\* that produced the matcher list leaves the list as it is, the same
\* matchers in the same order.
C27_CompilationIdempotent ==
    [][(pc = "classify" /\ pc' = "compiled_again") =>
           compiled_patterns' = compiled_patterns]_vars

\* The compiler was called again on a list of three matchers.
C27_Witness ==
    /\ pc = "compiled_again"
    /\ Len(compiled_patterns.list) = 3
    /\ Len(core_page_types_nested[1].types[1].typical_url_patterns) = 3

\* C28 (an invalid pattern is skipped, not fatal), as stated: the compiler
\* does not raise, whatever the patterns of the taxonomy.
C28_InvalidPatternNotFatal == pc # "compile_raised"

\* The entry that the document before held for the period z is in the
\* document now, with the same value.
KeptEntry(before, now, z) ==
    Persisted(before, z) =>
        Persisted(now, z) /\ now.val[z] = before.val[z]

\* The places of a run where no write of a document is under way.
BetweenWrites ==
    {"links_loop", "types", "plan_start", "plan_loop", "plan_done",
     "scen_loop"}

\* C29 (period ownership), as stated: between two writes of a run, the
\* entries that the documents held when the run started for the periods
\* that the run did not process in the stage are still there, unchanged;
\* and the taxonomy document only changes by its first writing.
C29_PeriodOwnership ==
    /\ [](pc \in BetweenWrites =>
            \A z \in Years :
                /\ z \notin calls.disc =>
                       KeptEntry(start.links, linksDoc, z)
                /\ z \notin calls.sel =>
                       KeptEntry(start.plan, planDoc, z)
                /\ z \notin calls.fetch =>
                       KeptEntry(start.scen, scenDoc, z))
    /\ [][typesDoc' # typesDoc =>
              (~Exists(typesDoc) \/ pc = "types_dump")]_vars

\* C30 (populate-once), as stated: within a run, an entry that a period
\* has in the links, in the planning results or in the scenario data of
\* the process keeps its value (an empty list of links is no entry yet).
C30_PopulateOnce ==
    [][(pc # "idle" /\ pc' # "idle") =>
           \A y \in Years :
               /\ (y \in DOMAIN year_links_map
                      /\ year_links_map[y] # << >>) =>
                      (y \in DOMAIN year_links_map'
                          /\ year_links_map'[y] = year_links_map[y])
               /\ y \in DOMAIN yearly_analysis =>
                      (y \in DOMAIN yearly_analysis'
                          /\ yearly_analysis'[y] = yearly_analysis[y])
               /\ y \in DOMAIN yearly_scenario_data =>
                      (y \in DOMAIN yearly_scenario_data'
                          /\ yearly_scenario_data'[y] =
                                 yearly_scenario_data[y])]_vars

\* C31 (anchor as home in the pipeline), as stated: the call that
\* classifies a period is given the period's anchor URL as home page; and
\* no link of a persisted classified list has an effective host that is
\* neither empty nor the effective host of the period's anchor URL.
C31_AnchorAsHome ==
    /\ pc = "plan_dump" =>
           homepage_url = AnchorOf(Keys(year_links_map)[i])
    /\ \A y \in Years :
           Persisted(planDoc, y) =>
               \A n \in DOMAIN planDoc.val[y].classified_urls :
                   LET host ==
                         EffectiveHost(planDoc.val[y].classified_urls[n].url)
                   IN  host = << >> \/ host = EffectiveHost(AnchorOf(y))

\* C32 (closed stage set), as stated: the stage of every compiled matcher
\* is one of the six canonical journey stage names.
C32_ClosedStageSet ==
    \A m \in DOMAIN compiled_patterns.list :
        compiled_patterns.list[m].stage \in Range(StageNames)

\* C34 (selected URLs come from the period's own links), as stated: every
\* URL of a period's persisted recommended list is a member of the
\* period's persisted discovered link list.
C34_SelectedFromOwnLinks ==
    \A y \in Years :
        (Persisted(planDoc, y) /\ Persisted(linksDoc, y)) =>
            Range(planDoc.val[y].recommended_crawl_pages)
                \subseteq Range(linksDoc.val[y])

\* C37 (no loss of earlier results on crash), as stated: when a run is
\* killed while it rewrites a document, the entries that the links, the
\* planning and the scenario document held when the run started are still
\* in the documents the next run finds.
C37_NoLossOnCrash ==
    [][(pc \in Writing /\ pc' = "idle" /\ exit' = "killed") =>
           \A z \in Years :
               /\ KeptEntry(start.links, linksDoc', z)
               /\ KeptEntry(start.plan, planDoc', z)
               /\ KeptEntry(start.scen, scenDoc', z)]_vars

\* C38 (missing input is a clean exit), as stated: when the input file
\* cannot be opened or read, load_historical_urls_from_file returns the
\* empty list and main() ends normally, no stage run and no document
\* written.
C38_MissingInputCleanExit ==
    (input_file.st # "ok" /\ pc # "load") =>
        /\ historical_urls = [state |-> "returned", list |-> << >>]
        /\ pc = "idle" /\ exit = "normal"
        /\ calls = NoCalls
        /\ \A doc \in {linksDoc, typesDoc, planDoc, scenDoc} : ~Exists(doc)

\* C36 (taxonomy round-trip), as stated: the taxonomy that a later run
\* loads from the document has the stage -> type -> pattern content of the
\* generating run, compiles to the same ordered matcher list, and gives
\* the period's links the same classification.
C36_TaxonomyRoundTrip ==
    pc = "resumed" =>
        /\ core_page_types_nested = generated.nested
        /\ Compiled(core_page_types_nested) = generated.compiled
        /\ results = generated.results

\* No run is writing the planning document.
NoWriteUnderWay ==
    \A r \in DOMAIN writers : writers[r].at \notin {"dump", "final_dump"}

\* C33 (writers are serialized), as stated: with two runs for the same
\* company under way, a period's result that a completed write persisted
\* is in the document whenever no write is under way: no later write of
\* the other run loses it.
C33_WritersSerialized ==
    NoWriteUnderWay => \A y \in written : Persisted(planDoc, y)

\* Every period of the input has a persisted scenario entry.
AllTagged == \A y \in Years : Persisted(scenDoc, y)

\* A step without a fault: no collaborator call fails or returns less than
\* it was asked for, no write fails, no run is killed; and the selection
\* service, when the step calls it, recommends some URL.
Faultless ==
    /\ faults' = faults
    /\ (pc = "plan_loop" /\ pc' = "plan_dump") =>
           \A y \in (DOMAIN yearly_analysis') \ (DOMAIN yearly_analysis) :
               yearly_analysis'[y].core_url_details.recommended_url_list
                   # << >>

\* C35 (eventual completion under retry), as stated: if from some run
\* onward nothing fails, then after finitely many further runs every
\* period has a persisted scenario entry.
C35_EventualCompletion == <>[][Faultless]_vars => <>AllTagged

====
